---- MODULE Spec2Model ----
(***************************************************************************)
(* Model of python_backend/main.py of timio-source/TimioWebAI: the         *)
(* rate-limit retry decorator, the article generation queue with its       *)
(* single background worker and report cache, and one run of the research  *)
(* workflow graph with the report assembly that follows it.                *)
(*                                                                         *)
(* The specifications share the module, each over its own variables:       *)
(*   SpecInv  one call of the wrapper built by with_rate_limit_retry       *)
(*   SpecQ    queue, worker, cache and the HTTP handlers that touch them   *)
(*   SpecWF   one graph.invoke plus the assembly in                        *)
(*            generate_article_for_topic                                   *)
(*   SpecSlug the slug computations of main.py and feed.py                 *)
(*   SpecDedup one call of deduplicate_conflicting_quotes                  *)
(* Durations are integers in tenths of a second.                           *)
(***************************************************************************)
EXTENDS Integers, Sequences, FiniteSets, TLC

Max(a, b) == IF a >= b THEN a ELSE b

RECURSIVE Pow2(_)
Pow2(n) == IF n <= 0 THEN 1 ELSE 2 * Pow2(n - 1)

VARIABLES
    max_retries,    \* decorator argument
    base_delay,     \* decorator argument
    attempt,        \* loop variable of `for attempt in range(max_retries)`
    invTrace,       \* outcomes of the calls of func made so far, in order
    invSleeps,      \* arguments of the time.sleep calls made so far, in order
    invWaits,       \* wait_time (before jitter) of each of those sleeps
    invResult       \* "running", "returned", "raised_rate_limit",
                    \* "raised_other", "returned_none"


invVars == <<max_retries, base_delay, attempt, invTrace, invSleeps, invWaits, invResult>>

VARIABLES
    report_cache,               \* function: slug -> report
    article_generation_queue,   \* sequence of topics
    is_generating_articles,     \* the module-level flag
    execPending,                \* tasks submitted to executor, not started
    wpc,                        \* per executor thread: where it is in
                                \* process_article_generation_queue
    wtopic,                     \* per executor thread: the popped topic
    wresult,                    \* per executor thread: how its last call of
                                \* generate_article_with_retry ended
    enq,                        \* the pool threads inside
                                \* queue_article_generation: how many are
                                \* at each of its two unlocked reads
    lpc,                        \* the event loop: which async handler it is in
    larg,                       \* the slug get_article was given, or the
                                \* headline the endpoint was given
    getResult,                  \* the answer get_article is about to send:
                                \* "Report", "Pending" (202), "NotFound" (404)
    calls                       \* handler invocations so far


qVars == <<report_cache, article_generation_queue, is_generating_articles,
           execPending, wpc, wtopic, wresult, enq, lpc, larg, getResult, calls>>

VARIABLES
    wfPc,           \* where the run is: "researcher", "scraper", "writers",
                    \* "images", "aggregator", "end", "done", "failed"
    wfAttempt,      \* 1 for the first graph.invoke, 2 for the one after a
                    \* RateLimitError (main.py 260, 267)
    wfOut,          \* per writer node: what it returned in this invoke
    messages,       \* AgentState.messages, as the number of entries
    scraped_data,   \* AgentState.scraped_data, as the number of items
    research_report,\* AgentState.research_report: section -> payload
    image_urls,     \* AgentState.image_urls: "unset" or "set"
    wfImage,        \* image_fetcher in its step: "idle", "running", "done"
    wfAggregator,   \* how many times aggregator_node has run
    wfFinal         \* the report generate_article_for_topic cached, or
                    \* NoReport

wfVars == <<wfPc, wfAttempt, wfOut, messages, scraped_data, research_report,
            image_urls, wfImage, wfAggregator, wfFinal>>

VARIABLES
    headline1,      \* a headline handed to the slug computations
    headline2,      \* another one
    slugOut         \* the slugs computed from the two, or NoSlugs

slugVars == <<headline1, headline2, slugOut>>

VARIABLES
    parsed_json,                \* the list a call of
                                \* deduplicate_conflicting_quotes is given
    current_research_report,    \* its other argument (main.py 1453)
    unique_conflicts,           \* the list it returned
    validation,                 \* what validate_conflicting_info_quotes made
                                \* of that list: "passed" (True), "failed"
                                \* (False), "not_run"
    dedupPc                     \* "call" before the call, "returned" after

dedupVars == <<parsed_json, current_research_report, unique_conflicts,
               validation, dedupPc>>

(***************************************************************************)
(* Part 1.  with_rate_limit_retry (main.py 78-114)                         *)
(***************************************************************************)

\* Largest max_retries explored; the program decorates with 5
\* (generate_article_with_retry) and 3 (writer_node's invoke_agent).
MaxRetriesBound == 5

\* base_delay values, in tenths of a second: the 2 s (main.py 1426) and 3 s
\* (main.py 227) the program passes, and 0.2 s, a value the decorator
\* accepts that lies below the spread of the jitter.
BaseDelays == {2, 20, 30}

\* "no 'Please try again in Ns' in the error message"
NoSuggestion == -1

\* Provider-suggested waits carried by a RateLimitError, tenths of a second.
SuggestedWaits == {NoSuggestion, 7, 2000}

\* random.uniform(0.1, 0.5): the two ends of the interval.
JitterMin == 1
JitterMax == 5
Jitters == {JitterMin, JitterMax}

\* What one call of func does: returns, raises RateLimitError (with or
\* without a suggested wait in its message), or raises something else.
FnOutcomes ==
    {[kind |-> "ok", suggested |-> NoSuggestion],
     [kind |-> "other", suggested |-> NoSuggestion]}
    \cup {[kind |-> "rate", suggested |-> s] : s \in SuggestedWaits}

\* A retry decision that retries on every exception.
OnOutcomeRetryAll(o, att, maxr) ==
    IF o.kind = "ok" THEN "return"
    ELSE IF att = maxr - 1 THEN "raise" ELSE "sleep"

\* A retry decision that allows one attempt too many.
OnOutcomeOffByOne(o, att, maxr) ==
    IF o.kind = "ok" THEN "return"
    ELSE IF o.kind = "rate"
         THEN IF att = maxr THEN "raise" ELSE "sleep"
         ELSE "raise"

\* The try/except of the wrapper: what happens after func produced o on
\* attempt att.
OnOutcome(o, att, maxr) ==
    IF o.kind = "ok" THEN "return"
    ELSE IF o.kind = "rate"
         THEN IF att = maxr - 1 THEN "raise" ELSE "sleep"
         ELSE "raise"

\* A wait that takes the provider's suggestion whenever there is one.
WaitTimeSuggestedOnly(base, att, suggested) ==
    IF suggested # NoSuggestion THEN suggested ELSE base * Pow2(att)

\* A wait that grows linearly with the attempt.
WaitTimeLinear(base, att, suggested) ==
    IF suggested # NoSuggestion
    THEN Max(base * (att + 1), suggested)
    ELSE base * (att + 1)

\* wait_time of lines 93-99.
WaitTime(base, att, suggested) ==
    IF suggested # NoSuggestion
    THEN Max(base * Pow2(att), suggested)
    ELSE base * Pow2(att)

\* One iteration of the for loop: call func, then return, raise, or sleep
\* and go to the next attempt.
InvAttempt ==
    /\ invResult = "running"
    /\ attempt < max_retries
    /\ \E o \in FnOutcomes, jitter \in Jitters :
         LET next == OnOutcome(o, attempt, max_retries)
             wait_time == WaitTime(base_delay, attempt, o.suggested)
         IN  /\ invTrace' = Append(invTrace, o)
             /\ IF next = "sleep"
                THEN /\ invSleeps' = Append(invSleeps, wait_time + jitter)
                     /\ invWaits' = Append(invWaits, wait_time)
                     /\ attempt' = attempt + 1
                     /\ invResult' = "running"
                ELSE /\ UNCHANGED <<invSleeps, invWaits, attempt>>
                     /\ invResult' = IF next = "return" THEN "returned"
                                     ELSE IF o.kind = "rate" THEN "raised_rate_limit"
                                     ELSE "raised_other"
    /\ UNCHANGED <<max_retries, base_delay>>
    /\ UNCHANGED <<qVars, wfVars, slugVars, dedupVars>>

\* `return None` after the loop (line 112) needs the loop to end without a
\* return or a raise; with max_retries >= 1 the last iteration always does
\* one of the two, so the line has no action here.
InvNext == InvAttempt

AllRate == \A i \in 1..Len(invTrace) : invTrace[i].kind = "rate"

NonDecreasing(seq) == \A i \in 1..(Len(seq) - 1) : seq[i] <= seq[i + 1]

\* C8: when every call of func raises RateLimitError, the wrapper keeps
\* calling while fewer than max_retries attempts were made, and stops only
\* by re-raising the RateLimitError, having called func exactly max_retries
\* times.
C8_ExactlyMaxRetriesAttempts ==
    AllRate =>
        /\ invResult = "running" => (Len(invTrace) = attempt /\ attempt < max_retries)
        /\ invResult # "running" =>
              (invResult = "raised_rate_limit" /\ Len(invTrace) = max_retries)

C8_Witness ==
    /\ AllRate
    /\ invResult = "raised_rate_limit"
    /\ max_retries = 3
    /\ Len(invTrace) = 3

\* C9 as stated: when every call raises RateLimitError, the sleeps are
\* non-decreasing and each is at most base_delay * 2^max_retries plus
\* jitter, whatever waits the errors suggest.
C9_DelaysMonotoneBounded ==
    AllRate =>
        /\ NonDecreasing(invSleeps)
        /\ \A i \in 1..Len(invSleeps) :
              invSleeps[i] <= base_delay * Pow2(max_retries) + JitterMax

\* The errors' suggested waits never exceed the exponential term of their
\* attempt.
SuggestionsBelowBackoff ==
    \A i \in 1..Len(invTrace) :
        invTrace[i].suggested <= base_delay * Pow2(i - 1)

\* C9 amended: when every call raises RateLimitError, no suggested wait
\* exceeds base_delay * 2^attempt and base_delay is at least the jitter
\* spread (0.4 s), the sleeps are non-decreasing and each is at most
\* base_delay * 2^max_retries plus jitter.
C9_DelaysMonotoneBoundedNoSuggestion ==
    (AllRate /\ SuggestionsBelowBackoff /\ base_delay >= JitterMax - JitterMin) =>
        /\ NonDecreasing(invSleeps)
        /\ \A i \in 1..Len(invSleeps) :
              invSleeps[i] <= base_delay * Pow2(max_retries) + JitterMax

C9_Witness ==
    /\ AllRate
    /\ SuggestionsBelowBackoff
    /\ invResult = "raised_rate_limit"
    /\ Len(invSleeps) >= 2
    /\ \E i \in 1..Len(invTrace) : invTrace[i].suggested # NoSuggestion

\* C10: an exception other than RateLimitError ends the call at once: it is
\* the last call of func, the wrapper raises it, and the only sleeps are the
\* ones that followed the earlier rate-limit errors.
C10_OtherExceptionPropagates ==
    \A i \in 1..Len(invTrace) :
        invTrace[i].kind = "other" =>
            /\ i = Len(invTrace)
            /\ invResult = "raised_other"
            /\ Len(invSleeps) = i - 1

C10_Witness ==
    /\ invResult = "raised_other"
    /\ Len(invTrace) >= 2
    /\ Len(invSleeps) = Len(invTrace) - 1

\* The calls of func, by position in invTrace, that raised RateLimitError
\* on an attempt that was not the last one allowed.
RetriedCalls ==
    {i \in 1..Len(invTrace) : invTrace[i].kind = "rate" /\ i < max_retries}

Chars == {"a", "b", "A", " ", "-", "!", "\""}

\* str.lower()
LowerChar(c) == IF c = "A" THEN "a" ELSE c
Lower(str) == [i \in 1..Len(str) |-> LowerChar(str[i])]

\* str.replace(' ', '-')
SpaceToHyphen(str) == [i \in 1..Len(str) |-> IF str[i] = " " THEN "-" ELSE str[i]]

\* The characters of the alphabet that [a-z0-9-] matches.
SlugChars == {"a", "b", "-"}

IsNotQuoteChar(c) == c # "\""
IsSlugChar(c) == c \in SlugChars

\* topic_slug of queue_article_generation (lines 125-126), the same
\* expression as in get_feed (1683-1684) and get_cache_status (1813-1814).
Slug(headline) ==
    SelectSeq(SelectSeq(SpaceToHyphen(Lower(headline)), IsNotQuoteChar), IsSlugChar)

\* str.strip(chars): the characters of cs taken off both ends.
RECURSIVE LStrip(_, _)
LStrip(str, cs) ==
    IF str # <<>> /\ Head(str) \in cs THEN LStrip(Tail(str), cs) ELSE str

RECURSIVE RStrip(_, _)
RStrip(str, cs) ==
    IF str # <<>> /\ str[Len(str)] \in cs
    THEN RStrip(SubSeq(str, 1, Len(str) - 1), cs)
    ELSE str

Strip(str, cs) == RStrip(LStrip(str, cs), cs)

\* The characters of the alphabet that [a-zA-Z0-9\s-] matches (feed.py 849).
IsFeedChar(c) == c \in {"a", "b", "A", " ", "-"}

\* str.replace("--", "-"): one pass from the left over non-overlapping
\* occurrences.
RECURSIVE CollapseHyphens(_)
CollapseHyphens(str) ==
    IF Len(str) < 2 THEN str
    ELSE IF str[1] = "-" /\ str[2] = "-"
    THEN <<"-">> \o CollapseHyphens(SubSeq(str, 3, Len(str)))
    ELSE <<str[1]>> \o CollapseHyphens(Tail(str))

\* The [:100] of feed.py 849.
SlugLimit == 100

\* "slug" of the enhanced topic in feed.py (line 849).  It is a display
\* field of the topic: queue_article_generation overwrites it with Slug
\* (main.py 137) and get_feed computes Slug again (1683-1684), so the cache
\* is keyed by Slug, not by this.
FeedSlug(headline) ==
    LET s == Strip(CollapseHyphens(SpaceToHyphen(Lower(SelectSeq(headline, IsFeedChar)))),
                   {"-"})
    IN  SubSeq(s, 1, IF Len(s) < SlugLimit THEN Len(s) ELSE SlugLimit)

\* Python's `sub in text` on strings.
IsSubstring(sub, text) ==
    \E k \in 0..(Len(text) - Len(sub)) :
        \A i \in 1..Len(sub) : text[k + i] = sub[i]

(***************************************************************************)
(* Part 3.  What graph.invoke hands back, and the two report assemblies    *)
(***************************************************************************)

\* Keys of writer_agents (main.py 1286-1294); each is a node of the graph.
Writers == {"article", "executive_summary", "timeline_items", "cited_sources",
            "raw_facts", "perspectives", "conflicting_info"}

\* required_sections (main.py 380), also the fields of ResearchReport
\* (schemas.py 64-70).
RequiredSections == {"article", "executive_summary", "timeline_items",
                     "cited_sources", "raw_facts", "perspectives"}

\* The sections generate_article_for_topic replaces by a fallback when they
\* are missing or empty (main.py 313-377): all required ones but 'article'.
PlaceholderSections == RequiredSections \ {"article"}

\* What the JSON a writer returned is worth to the schema: "valid" decodes
\* to the section's model, "empty" is [] or {} (falsy), "invalid" is JSON
\* that the model rejects.
PayloadKinds == {"valid", "empty", "invalid"}

\* research_node is the only node that lets an exception out: "ok",
\* "rate" (openai.RateLimitError), "other" (any other exception).
ResearchOutcomes == {"ok", "rate", "other"}

\* AgentState.research_report (main.py 728) carries no reducer, unlike
\* `messages` (725) and unlike hot_topics in feed.py (39-46): LangGraph
\* gives such a key a last-value channel, which takes one write per step
\* and raises InvalidUpdateError when a step brings several.  The seven
\* writers run in one step, each successful one writing
\* {"research_report": {agent_name: parsed_json}} (main.py 1460), so the
\* step goes through only when at most one of them succeeded.
\* writes: function from the writers that succeeded to their payload kind.
\* The step as it would go with a merging reducer on the key, the one
\* feed.py gives hot_topics.
ApplyWritesMerging(writes) == [kind |-> "state", report |-> writes]

ApplyWrites(writes) ==
    IF Cardinality(DOMAIN writes) > 1
    THEN [kind |-> "error", report |-> <<>>]
    ELSE [kind |-> "state", report |-> writes]

\* Result of graph.invoke(initial_state): "rate" (RateLimitError raised),
\* "error" (another exception raised) or "state" with the final
\* research_report, a function from section names to payload kinds.
GraphInvoke(research, writes) ==
    IF research = "rate" THEN [kind |-> "rate", report |-> <<>>]
    ELSE IF research = "other" THEN [kind |-> "error", report |-> <<>>]
    ELSE ApplyWrites(writes)

\* All the ways the writers of one run can end.
WriterResults ==
    UNION {[ok -> PayloadKinds] : ok \in SUBSET Writers}

\* The article_id a writer put into the elements of its section; the
\* examples the writers are shown carry 123456 (main.py 1003-1051).
WriterArticleId == 3

\* Lines 302-308: every element of a section the run brought gets the id
\* of the article, whatever it carried.
Stamp(own, id) == id

\* The 'article_id' of the fallback sections (main.py 317, 331, 345, 356,
\* 369).
FallbackArticleIdZero(id) == 0

FallbackArticleId(id) == id

\* "no report": the None of a failed run, an absent cache entry.
NoReport == [id |-> 0, slug |-> <<>>, generated |-> {}, placeholder |-> {},
             article_id |-> [k \in PlaceholderSections |-> 0]]

\* final_report_data at line 390: the article with its id and slug, the
\* sections the run brought, stamped, and a fallback for each section of
\* PlaceholderSections that is missing or empty.
Stamped(report, slug, id) ==
    [id |-> id, slug |-> slug,
     generated |-> {k \in DOMAIN report \cap RequiredSections : report[k] = "valid"},
     placeholder |-> {k \in PlaceholderSections :
                        k \notin DOMAIN report \/ report[k] = "empty"},
     article_id |-> [k \in PlaceholderSections |->
                        IF k \in DOMAIN report /\ report[k] # "empty"
                        THEN Stamp(WriterArticleId, id)
                        ELSE FallbackArticleId(id)]]

\* generate_article_for_topic from "Assemble final report" to
\* model_validate (main.py 285-390): fallbacks for the missing or empty
\* sections other than 'article', ValueError when 'article' is missing,
\* ValidationError when a generated section does not fit its model (an
\* empty article dict lacks the Article fields; an empty executive_summary
\* dict is no longer empty after line 308 gave it an article_id, gets no
\* fallback and lacks 'points').  conflicting_info is not a field of
\* ResearchReport and is dropped by model_validate.
\* NoReport stands for the exception, which line 396 turns into None.
Assemble(report, slug, id) ==
    IF "article" \notin DOMAIN report THEN NoReport
    ELSE IF report["article"] # "valid" THEN NoReport
    ELSE IF \E k \in DOMAIN report \cap PlaceholderSections : report[k] = "invalid"
    THEN NoReport
    ELSE IF "executive_summary" \in DOMAIN report
            /\ report["executive_summary"] = "empty"
    THEN NoReport
    ELSE Stamped(report, slug, id)

\* research() from "ASSEMBLING FINAL REPORT" to model_validate (main.py
\* 1554-1580): no fallbacks, so every field of ResearchReport has to be in
\* research_report; the lists may be empty, the objects may not.
ResearchAssemble(report, slug, id) ==
    IF ~(RequiredSections \subseteq DOMAIN report) THEN NoReport
    ELSE IF \E k \in RequiredSections : report[k] = "invalid" THEN NoReport
    ELSE IF report["article"] = "empty" \/ report["executive_summary"] = "empty"
    THEN NoReport
    ELSE [id |-> id, slug |-> slug,
          generated |-> {k \in RequiredSections : report[k] = "valid"},
          placeholder |-> {},
          article_id |-> [k \in PlaceholderSections |-> Stamp(WriterArticleId, id)]]

\* Every result one graph.invoke can have.
RunResults ==
    {GraphInvoke(r, w) : r \in ResearchOutcomes, w \in WriterResults}

(***************************************************************************)
(* Part 4.  Queue, worker, cache and the handlers around them              *)
(***************************************************************************)

\* Headlines the callers pass: "a!b" (slug "ab"; the punctuation stays in
\* the text get_article searches) and "!" (empty slug).
Headlines == {<<"a", "!", "b">>, <<"!">>}

\* Slugs asked of get_article.
RequestedSlugs == {<<"a", "b">>, <<"a">>}

\* Topics per queue_article_generation call.
MaxBatch == 2

\* Handler invocations (HTTP requests) explored in one behaviour.
MaxCalls == 3

\* Threads of the web server's pool that run get_feed concurrently.
NumEnqueuers == 1

\* An executor with a second thread.
max_workers_two == 2 * 1

\* ThreadPoolExecutor(max_workers=1), main.py 70.
max_workers == 1

ExecutorThreads == 1..max_workers

\* Pool threads are interchangeable, so enq counts them by position:
\* "read_flag" (before line 146) and "read_queue" (between the two operands
\* of line 146); the others are outside the function.
NoEnqueuer == [pc \in {"read_flag", "read_queue"} |-> 0]

TopicBatches ==
    UNION {[1..n -> Headlines] : n \in 1..MaxBatch}

NoTopic == [headline |-> <<>>, slug |-> <<>>, force_research |-> FALSE]

\* The dict report_cache as a function on every slug the model can form;
\* NoReport marks the keys the dict does not hold.
AllSlugs == {Slug(h) : h \in Headlines} \cup RequestedSlugs \cup {<<>>}

\* `slug in report_cache`
InCache(cache, slug) == cache[slug] # NoReport

Cached(slug) == InCache(report_cache, slug)

\* An assignment that keeps the id of the entry it overwrites.
CachePutMerging(cache, slug, rep) ==
    [cache EXCEPT ![slug] = IF cache[slug] = NoReport THEN rep
                            ELSE [rep EXCEPT !.id = cache[slug].id]]

\* An assignment that drops every other entry.
CachePutEvicting(cache, slug, rep) ==
    [k \in DOMAIN cache |-> IF k = slug THEN rep ELSE NoReport]

\* `report_cache[slug] = rep`
CachePut(cache, slug, rep) == [cache EXCEPT ![slug] = rep]

EmptyCache == [k \in AllSlugs |-> NoReport]

CountSlug(queue, slug) ==
    Cardinality({i \in 1..Len(queue) : queue[i].slug = slug})

\* ---- queue_article_generation (main.py 117-148) ----

\* The topic as it enters the queue: lines 125-126 give it its slug, lines
\* 137-138 store the slug and the force flag in it.
QueuedTopic ==
    [headline \in Headlines, force \in BOOLEAN |->
        [headline |-> headline, slug |-> Slug(headline), force_research |-> force]]

\* new_topics without the cache test of line 129.
NewTopicsIgnoreCache(topics, force, queue, cache) ==
    LET queued == {queue[j].slug : j \in 1..Len(queue)}
        keep(topic) == topic.slug \notin queued
    IN  SelectSeq([i \in 1..Len(topics) |-> QueuedTopic[topics[i], force]], keep)

\* new_topics of lines 122-139: a topic is taken when it is forced or not
\* cached, and no topic of the queue has its slug.  The test reads
\* article_generation_queue, which does not yet hold the topics chosen
\* earlier in the same call.
NewTopics(topics, force, queue, cache) ==
    LET queued == {queue[j].slug : j \in 1..Len(queue)}
        keep(topic) ==
            /\ force \/ ~InCache(cache, topic.slug)
            /\ topic.slug \notin queued
    IN  SelectSeq([i \in 1..Len(topics) |-> QueuedTopic[topics[i], force]], keep)

\* Lines 121-143, under article_generation_lock, for a call
\* queue_article_generation(topics, force) with any topics and any force:
\* the topics it selects go to the back of the queue.
Enq_Lock ==
    /\ enq["read_flag"] + enq["read_queue"] < NumEnqueuers
    /\ calls < MaxCalls
    /\ \E new_topics \in
            {NewTopics(topics, force, article_generation_queue, report_cache) :
                topics \in TopicBatches, force \in BOOLEAN} :
          article_generation_queue' = article_generation_queue \o new_topics
    /\ enq' = [enq EXCEPT !["read_flag"] = @ + 1]
    /\ calls' = calls + 1
    /\ UNCHANGED <<report_cache, is_generating_articles, execPending, wpc, wtopic, wresult,
                   lpc, larg, getResult>>
    /\ UNCHANGED <<invVars, wfVars, slugVars, dedupVars>>

\* Line 146, first operand: `not is_generating_articles`, read without the lock.
Enq_ReadFlag ==
    /\ enq["read_flag"] > 0
    /\ enq' = IF is_generating_articles
              THEN [enq EXCEPT !["read_flag"] = @ - 1]
              ELSE [enq EXCEPT !["read_flag"] = @ - 1, !["read_queue"] = @ + 1]
    /\ UNCHANGED <<report_cache, article_generation_queue, is_generating_articles,
                   execPending, wpc, wtopic, wresult, lpc, larg, getResult, calls>>
    /\ UNCHANGED <<invVars, wfVars, slugVars, dedupVars>>

\* Line 146, second operand, and the submit of line 148.
Enq_ReadQueue ==
    /\ enq["read_queue"] > 0
    /\ execPending' = IF article_generation_queue # <<>>
                      THEN execPending + 1 ELSE execPending
    /\ enq' = [enq EXCEPT !["read_queue"] = @ - 1]
    /\ UNCHANGED <<report_cache, article_generation_queue, is_generating_articles,
                   wpc, wtopic, wresult, lpc, larg, getResult, calls>>
    /\ UNCHANGED <<invVars, wfVars, slugVars, dedupVars>>

\* ---- process_article_generation_queue (main.py 150-224) ----

\* Lines 154-157: return when the flag is already set.
StartDecision(flag) == IF flag THEN "return" ELSE "run"

\* An executor thread takes the next submitted task and runs lines 154-157.
W_Start(t) ==
    /\ wpc[t] = "idle"
    /\ execPending > 0
    /\ execPending' = execPending - 1
    /\ IF StartDecision(is_generating_articles) = "return"
       THEN UNCHANGED <<wpc, is_generating_articles>>
       ELSE /\ is_generating_articles' = TRUE
            /\ wpc' = [wpc EXCEPT ![t] = "pop"]
    /\ UNCHANGED <<report_cache, article_generation_queue, wtopic, wresult, enq, lpc, larg,
                   getResult, calls>>
    /\ UNCHANGED <<invVars, wfVars, slugVars, dedupVars>>

\* pop(0) of line 167: the first topic and the queue without it.
PopLast(queue) ==
    [topic |-> queue[Len(queue)], rest |-> SubSeq(queue, 1, Len(queue) - 1)]

\* A read of the first topic that leaves it in the queue.
PeekFirst(queue) == [topic |-> Head(queue), rest |-> queue]

PopFirst(queue) == [topic |-> Head(queue), rest |-> Tail(queue)]

\* Lines 164-167, under the lock: leave the loop on an empty queue, else pop.
W_Pop(t) ==
    /\ wpc[t] = "pop"
    /\ IF article_generation_queue = <<>>
       THEN /\ wpc' = [wpc EXCEPT ![t] = "finally"]
            /\ UNCHANGED <<article_generation_queue, wtopic>>
       ELSE /\ wtopic' = [wtopic EXCEPT ![t] = PopFirst(article_generation_queue).topic]
            /\ article_generation_queue' = PopFirst(article_generation_queue).rest
            /\ wpc' = [wpc EXCEPT ![t] = "check"]
    /\ UNCHANGED <<report_cache, is_generating_articles, execPending, wresult, enq,
                   lpc, larg, getResult, calls>>
    /\ UNCHANGED <<invVars, wfVars, slugVars, dedupVars>>

\* A check that skips nothing.
W_CheckSkipsNothing(t) ==
    /\ wpc[t] = "check"
    /\ wpc' = [wpc EXCEPT ![t] = "gen"]
    /\ UNCHANGED wtopic
    /\ UNCHANGED <<report_cache, article_generation_queue, is_generating_articles,
                   execPending, wresult, enq, lpc, larg, getResult, calls>>
    /\ UNCHANGED <<invVars, wfVars, slugVars, dedupVars>>

\* Lines 174-177: a cached, unforced topic is skipped (`continue` also skips
\* the sleep of line 215).
W_Check(t) ==
    /\ wpc[t] = "check"
    /\ IF Cached(wtopic[t].slug) /\ ~wtopic[t].force_research
       THEN /\ wpc' = [wpc EXCEPT ![t] = "pop"]
            /\ wtopic' = [wtopic EXCEPT ![t] = NoTopic]
       ELSE /\ wpc' = [wpc EXCEPT ![t] = "gen"]
            /\ UNCHANGED wtopic
    /\ UNCHANGED <<report_cache, article_generation_queue, is_generating_articles,
                   execPending, wresult, enq, lpc, larg, getResult, calls>>
    /\ UNCHANGED <<invVars, wfVars, slugVars, dedupVars>>

\* generate_article_for_topic up to the first graph.invoke (main.py
\* 235-260): "none" without a headline, "cached" for a cached unforced slug,
\* else "invoke".
GenStart(topic, cache) ==
    IF topic.headline = <<>> THEN "none"
    ELSE IF InCache(cache, topic.slug) /\ ~topic.force_research THEN "cached"
    ELSE "invoke"

\* How a call of generate_article_with_retry ended: "slug" (it returned the
\* slug), "none_rate_limit" (it returned None because the second
\* graph.invoke raised RateLimitError) or "none_error" (it returned None
\* for any other reason).  NoCall: no call has ended
\* since the last sleep of line 215.
NoCall == "no_call"

\* Whether the call raises, into the except clause of line 204, an exception
\* with "rate limit" in its text.  generate_article_for_topic catches every
\* exception at line 396 and returns None; asyncio.run and the wrapper of
\* with_rate_limit_retry pass the return value on.  So it never does.
RaisesRateLimit(callEnd) == FALSE

\* Lines 204-212: the topic goes back to the end of the queue when the
\* call raised such an exception.
QueueAfterCall(queue, topic, callEnd) ==
    IF RaisesRateLimit(callEnd) THEN Append(queue, topic) ELSE queue

\* Line 182 down to graph.invoke.  Without a run the call has returned: the
\* slug of a cached topic, None for a topic without a headline.
W_Gen(t) ==
    /\ wpc[t] = "gen"
    /\ IF GenStart(wtopic[t], report_cache) = "invoke"
       THEN /\ wpc' = [wpc EXCEPT ![t] = "invoke"]
            /\ UNCHANGED <<wtopic, wresult, article_generation_queue>>
       ELSE LET callEnd == IF GenStart(wtopic[t], report_cache) = "cached"
                           THEN "slug" ELSE "none_error"
            IN  /\ wpc' = [wpc EXCEPT ![t] = "sleep"]
                /\ wresult' = [wresult EXCEPT ![t] = callEnd]
                /\ article_generation_queue' =
                       QueueAfterCall(article_generation_queue, wtopic[t], callEnd)
                /\ UNCHANGED wtopic
    /\ UNCHANGED <<report_cache, is_generating_articles,
                   execPending, enq, lpc, larg, getResult, calls>>
    /\ UNCHANGED <<invVars, wfVars, slugVars, dedupVars>>

\* article_id (main.py 286, 1555) is a fresh random number; the model gives
\* a report one of two numbers, the one the entry it replaces does not have,
\* so that a replaced entry always differs from its replacement.
NewId(cache, slug) == IF cache[slug].id = 1 THEN 2 ELSE 1

\* The cache written without the checks of lines 379-390.
CacheAfterRunUnvalidated(cache, result, slug) ==
    IF result.kind = "state"
    THEN CachePut(cache, slug, Stamped(result.report, slug, NewId(cache, slug)))
    ELSE cache

\* The cache after generate_article_for_topic got result from graph.invoke
\* (main.py 269-398): the assembled report under topic_slug, or no change
\* when the run or the assembly raised.
CacheAfterRun(cache, result, slug) ==
    IF result.kind = "state" /\ Assemble(result.report, slug, NewId(cache, slug)) # NoReport
    THEN CachePut(cache, slug, Assemble(result.report, slug, NewId(cache, slug)))
    ELSE cache

\* How the call ends after a graph.invoke that ended in result (main.py
\* 269-398): line 394 returns the slug after the cache write, line 398
\* returns None.
CallEndOf(result, slug) ==
    IF result.kind = "rate" THEN "none_rate_limit"
    ELSE IF result.kind = "state" /\ Assemble(result.report, slug, 1) # NoReport
    THEN "slug"
    ELSE "none_error"

\* What the first graph.invoke of a generate_article_for_topic call for
\* slug can lead to (main.py 259-398): the second graph.invoke after a
\* RateLimitError, or the cache CacheAfterRun gives.
RunEffects(cache, slug) ==
    {[retry |-> result.kind = "rate",
      cache |-> IF result.kind = "rate" THEN cache
                ELSE CacheAfterRun(cache, result, slug),
      callEnd |-> CallEndOf(result, slug)] : result \in RunResults}

\* What the second graph.invoke can lead to: no further retry.
RetryEffects(cache, slug) ==
    {[retry |-> FALSE, cache |-> CacheAfterRun(cache, result, slug),
      callEnd |-> CallEndOf(result, slug)] :
        result \in RunResults}

\* The first graph.invoke of the worker's run ends (main.py 259-268): a
\* RateLimitError leads to the second graph.invoke after 10 s, everything
\* else to the assembly or to None, and then to lines 184-212.
W_InvokeEnd(t) ==
    /\ wpc[t] = "invoke"
    /\ \E after \in RunEffects(report_cache, wtopic[t].slug) :
        IF after.retry
        THEN /\ wpc' = [wpc EXCEPT ![t] = "invoke_retry"]
             /\ UNCHANGED <<report_cache, wtopic, wresult, article_generation_queue>>
        ELSE /\ report_cache' = after.cache
             /\ wpc' = [wpc EXCEPT ![t] = "sleep"]
             /\ wresult' = [wresult EXCEPT ![t] = after.callEnd]
             /\ article_generation_queue' =
                    QueueAfterCall(article_generation_queue, wtopic[t], after.callEnd)
             /\ UNCHANGED wtopic
    /\ UNCHANGED <<is_generating_articles, execPending,
                   enq, lpc, larg, getResult, calls>>
    /\ UNCHANGED <<invVars, wfVars, slugVars, dedupVars>>

\* The second graph.invoke ends (line 267), and then lines 184-212.
W_InvokeRetryEnd(t) ==
    /\ wpc[t] = "invoke_retry"
    /\ \E after \in RetryEffects(report_cache, wtopic[t].slug) :
        /\ report_cache' = after.cache
        /\ wresult' = [wresult EXCEPT ![t] = after.callEnd]
        /\ article_generation_queue' =
               QueueAfterCall(article_generation_queue, wtopic[t], after.callEnd)
    /\ wpc' = [wpc EXCEPT ![t] = "sleep"]
    /\ UNCHANGED <<wtopic, is_generating_articles, execPending,
                   enq, lpc, larg, getResult, calls>>
    /\ UNCHANGED <<invVars, wfVars, slugVars, dedupVars>>

\* time.sleep(5) of line 215 is over; back to the head of the loop.
W_Sleep(t) ==
    /\ wpc[t] = "sleep"
    /\ wpc' = [wpc EXCEPT ![t] = "pop"]
    /\ wresult' = [wresult EXCEPT ![t] = NoCall]
    /\ wtopic' = [wtopic EXCEPT ![t] = NoTopic]
    /\ UNCHANGED <<report_cache, article_generation_queue, is_generating_articles,
                   execPending, enq, lpc, larg, getResult, calls>>
    /\ UNCHANGED <<invVars, wfVars, slugVars, dedupVars>>

\* An exit that leaves the flag as it is.
W_FinallyKeepsFlag(t) ==
    /\ wpc[t] = "finally"
    /\ wpc' = [wpc EXCEPT ![t] = "idle"]
    /\ UNCHANGED <<report_cache, article_generation_queue, execPending, wtopic, wresult, enq,
                   lpc, larg, getResult, calls, is_generating_articles>>
    /\ UNCHANGED <<invVars, wfVars, slugVars, dedupVars>>

\* Lines 222-224.
W_Finally(t) ==
    /\ wpc[t] = "finally"
    /\ is_generating_articles' = FALSE
    /\ wpc' = [wpc EXCEPT ![t] = "idle"]
    /\ UNCHANGED <<report_cache, article_generation_queue, execPending, wtopic, wresult, enq,
                   lpc, larg, getResult, calls>>
    /\ UNCHANGED <<invVars, wfVars, slugVars, dedupVars>>

\* ---- handlers on the event loop (async def: one at a time) ----

\* A queue test that compares slugs.
IsQueuedBySlug(slug, queue) ==
    \E i \in 1..Len(queue) : queue[i].slug = slug

\* is_queued of get_article (main.py 1605-1606): the requested slug is
\* looked for as a substring of each queued headline, lower-cased and with
\* spaces turned into hyphens.
IsQueued(slug, queue) ==
    \E i \in 1..Len(queue) :
        IsSubstring(slug, SpaceToHyphen(Lower(queue[i].headline)))

\* get_article, lines 1599-1600 and 1616-1617: the cache lookup.
GetArticle_Read ==
    /\ lpc = "idle"
    /\ calls < MaxCalls
    /\ calls' = calls + 1
    /\ \E slug \in RequestedSlugs :
        /\ larg' = slug
        /\ IF Cached(slug)
           THEN /\ getResult' = "Report"
                /\ lpc' = "ga_return"
           ELSE /\ lpc' = "ga_lock"
                /\ UNCHANGED getResult
    /\ UNCHANGED <<report_cache, article_generation_queue, is_generating_articles,
                   execPending, wpc, wtopic, wresult, enq>>
    /\ UNCHANGED <<invVars, wfVars, slugVars, dedupVars>>

\* get_article, lines 1604-1614: 202 or 404, decided under the lock.
GetArticle_Lock ==
    /\ lpc = "ga_lock"
    /\ getResult' = IF IsQueued(larg, article_generation_queue)
                     THEN "Pending" ELSE "NotFound"
    /\ lpc' = "ga_return"
    /\ UNCHANGED <<report_cache, article_generation_queue, is_generating_articles,
                   execPending, wpc, wtopic, wresult, enq, larg, calls>>
    /\ UNCHANGED <<invVars, wfVars, slugVars, dedupVars>>

\* The response of get_article leaves the handler.
GetArticle_Return ==
    /\ lpc = "ga_return"
    /\ getResult' = "none"
    /\ lpc' = "idle"
    /\ larg' = <<>>
    /\ UNCHANGED <<report_cache, article_generation_queue, is_generating_articles,
                   execPending, wpc, wtopic, wresult, enq, calls>>
    /\ UNCHANGED <<invVars, wfVars, slugVars, dedupVars>>

\* pause_generation (main.py 1911-1924).
PauseGeneration ==
    /\ lpc = "idle"
    /\ calls < MaxCalls
    /\ calls' = calls + 1
    /\ is_generating_articles' = FALSE
    /\ UNCHANGED <<report_cache, article_generation_queue, execPending, wpc, wtopic, wresult,
                   enq, lpc, larg, getResult>>
    /\ UNCHANGED <<invVars, wfVars, slugVars, dedupVars>>

\* reset_rate_limits (main.py 1935-1951).
ResetRateLimits ==
    /\ lpc = "idle"
    /\ calls < MaxCalls
    /\ calls' = calls + 1
    /\ is_generating_articles' = FALSE
    /\ UNCHANGED <<report_cache, article_generation_queue, execPending, wpc, wtopic, wresult,
                   enq, lpc, larg, getResult>>
    /\ UNCHANGED <<invVars, wfVars, slugVars, dedupVars>>

\* resume_generation, line 1929, first operand: the queue, read unlocked.
Resume_ReadQueue ==
    /\ lpc = "idle"
    /\ calls < MaxCalls
    /\ calls' = calls + 1
    /\ lpc' = IF article_generation_queue # <<>> THEN "resume_flag" ELSE "idle"
    /\ UNCHANGED <<report_cache, article_generation_queue, is_generating_articles,
                   execPending, wpc, wtopic, wresult, enq, larg, getResult>>
    /\ UNCHANGED <<invVars, wfVars, slugVars, dedupVars>>

\* resume_generation, line 1929, second operand, and the submit of 1930.
Resume_ReadFlag ==
    /\ lpc = "resume_flag"
    /\ execPending' = IF is_generating_articles THEN execPending ELSE execPending + 1
    /\ lpc' = "idle"
    /\ UNCHANGED <<report_cache, article_generation_queue, is_generating_articles,
                   wpc, wtopic, wresult, enq, larg, getResult, calls>>
    /\ UNCHANGED <<invVars, wfVars, slugVars, dedupVars>>

\* The key the endpoint's run is cached under (main.py 236, 391).
EndpointSlug == <<>>

\* topic_data of generate_article_for_topic_endpoint (main.py 1872-1878)
\* has no 'slug' and no 'force_research': topic.get('slug', '') is ''.
EndpointTopic(headline) ==
    [headline |-> headline, slug |-> EndpointSlug, force_research |-> FALSE]

\* The headline the endpoint is called with: "a!b".  The handler and
\* generate_article_for_topic treat every non-empty headline alike (main.py
\* 1866-1868, 235-245).
EndpointHeadlines == {<<"a", "!", "b">>}

\* generate_article_for_topic_endpoint up to graph.invoke (1864-1881, 235-260).
Endpoint_Start ==
    /\ lpc = "idle"
    /\ calls < MaxCalls
    /\ calls' = calls + 1
    /\ \E headline \in EndpointHeadlines :
        IF GenStart(EndpointTopic(headline), report_cache) = "invoke"
        THEN lpc' = "ep_invoke" /\ larg' = headline
        ELSE UNCHANGED <<lpc, larg>>
    /\ UNCHANGED <<report_cache, article_generation_queue, is_generating_articles,
                   execPending, wpc, wtopic, wresult, enq, getResult>>
    /\ UNCHANGED <<invVars, wfVars, slugVars, dedupVars>>

\* The endpoint's first graph.invoke ends.
Endpoint_InvokeEnd ==
    /\ lpc = "ep_invoke"
    /\ \E after \in RunEffects(report_cache, EndpointSlug) :
        IF after.retry
        THEN /\ lpc' = "ep_invoke_retry"
             /\ UNCHANGED <<report_cache, larg>>
        ELSE /\ report_cache' = after.cache
             /\ lpc' = "idle"
             /\ larg' = <<>>
    /\ UNCHANGED <<article_generation_queue, is_generating_articles, execPending,
                   wpc, wtopic, wresult, enq, getResult, calls>>
    /\ UNCHANGED <<invVars, wfVars, slugVars, dedupVars>>

\* The endpoint's second graph.invoke ends.
Endpoint_InvokeRetryEnd ==
    /\ lpc = "ep_invoke_retry"
    /\ \E after \in RetryEffects(report_cache, EndpointSlug) :
        report_cache' = after.cache
    /\ lpc' = "idle"
    /\ larg' = <<>>
    /\ UNCHANGED <<article_generation_queue, is_generating_articles, execPending,
                   wpc, wtopic, wresult, enq, getResult, calls>>
    /\ UNCHANGED <<invVars, wfVars, slugVars, dedupVars>>

\* The cache after research() got result from graph.invoke and the article
\* writer gave a title of this slug (main.py 1539-1589).
CacheAfterResearch(cache, result, slug) ==
    IF result.kind = "state"
       /\ ResearchAssemble(result.report, slug, NewId(cache, slug)) # NoReport
    THEN CachePut(cache, slug, ResearchAssemble(result.report, slug, NewId(cache, slug)))
    ELSE cache

\* research() up to graph.invoke (main.py 1529-1537).
Research_Start ==
    /\ lpc = "idle"
    /\ calls < MaxCalls
    /\ calls' = calls + 1
    /\ lpc' = "rs_invoke"
    /\ UNCHANGED <<report_cache, article_generation_queue, is_generating_articles,
                   execPending, wpc, wtopic, wresult, enq, larg, getResult>>
    /\ UNCHANGED <<invVars, wfVars, slugVars, dedupVars>>

\* research() after graph.invoke (1539-1593): an exception of the run goes
\* to the client; else the report is assembled without fallbacks and cached
\* under the slug of the title the article writer gave.
Research_InvokeEnd ==
    /\ lpc = "rs_invoke"
    /\ report_cache' \in
          {CacheAfterResearch(report_cache, result, Slug(title)) :
              result \in RunResults, title \in Headlines}
    /\ lpc' = "idle"
    /\ UNCHANGED <<article_generation_queue, is_generating_articles, execPending,
                   wpc, wtopic, wresult, enq, larg, getResult, calls>>
    /\ UNCHANGED <<invVars, wfVars, slugVars, dedupVars>>

\* get_server_time inside its refresh window (main.py 1983-1994):
\* report_cache.clear().
ServerTime_Refresh ==
    /\ lpc = "idle"
    /\ calls < MaxCalls
    /\ calls' = calls + 1
    /\ report_cache' = EmptyCache
    /\ UNCHANGED <<article_generation_queue, is_generating_articles, execPending,
                   wpc, wtopic, wresult, enq, lpc, larg, getResult>>
    /\ UNCHANGED <<invVars, wfVars, slugVars, dedupVars>>

\* get_feed inside its refresh window (main.py 1636-1648), on a thread of
\* the server's pool: report_cache.clear().  The calls of
\* queue_article_generation that follow (1657, 1676) are steps of Enq_Lock.
Feed_Refresh ==
    /\ calls < MaxCalls
    /\ calls' = calls + 1
    /\ report_cache' = EmptyCache
    /\ UNCHANGED <<article_generation_queue, is_generating_articles, execPending,
                   wpc, wtopic, wresult, enq, lpc, larg, getResult>>
    /\ UNCHANGED <<invVars, wfVars, slugVars, dedupVars>>

QNext ==
    \/ Enq_Lock
    \/ Enq_ReadFlag
    \/ Enq_ReadQueue
    \/ \E t \in ExecutorThreads : W_Start(t)
    \/ \E t \in ExecutorThreads : W_Pop(t)
    \/ \E t \in ExecutorThreads : W_Check(t)
    \/ \E t \in ExecutorThreads : W_Gen(t)
    \/ \E t \in ExecutorThreads : W_InvokeEnd(t)
    \/ \E t \in ExecutorThreads : W_InvokeRetryEnd(t)
    \/ \E t \in ExecutorThreads : W_Sleep(t)
    \/ \E t \in ExecutorThreads : W_Finally(t)
    \/ GetArticle_Read
    \/ GetArticle_Lock
    \/ GetArticle_Return
    \/ PauseGeneration
    \/ ResetRateLimits
    \/ Resume_ReadQueue
    \/ Resume_ReadFlag
    \/ Endpoint_Start
    \/ Endpoint_InvokeEnd
    \/ Endpoint_InvokeRetryEnd
    \/ Research_Start
    \/ Research_InvokeEnd
    \/ ServerTime_Refresh
    \/ Feed_Refresh

(***************************************************************************)
(* Part 5.  One run of the workflow graph and the assembly that follows    *)
(***************************************************************************)

\* The sections deduplicate_conflicting_quotes collects quotes from
\* (main.py 1309, 1318, 1326).
QuoteSections == {"raw_facts", "perspectives", "timeline_items"}

\* The quote sets a writer of one of those sections may come back with.
SectionQuoteSets == {{}, {"q1"}}

\* Entries of a conflicting_info list, shaped as
\* example_for_conflicting_info (main.py 1049-1064).
ConflictA == [source_a |-> [name |-> "n1", quote |-> "q1"],
              source_b |-> [name |-> "n2", quote |-> "q2"]]
ConflictB == [source_a |-> [name |-> "n3", quote |-> "q1"],
              source_b |-> [name |-> "n4", quote |-> "q3"]]

\* The lists the conflicting_info agent may come back with.
ConflictLists == {<<>>, <<ConflictA>>, <<ConflictA, ConflictB>>}

\* A section payload: what it is worth to the schema, the quotes it
\* carries, and (for conflicting_info) its entries.
NoPayload == [kind |-> "none", quotes |-> {}, conflicts |-> <<>>]

\* The quotes of a conflicting_info list.
ConflictQuotes(data) ==
    UNION {{data[i].source_a.quote, data[i].source_b.quote} : i \in 1..Len(data)}

\* A collection that looks at raw_facts only.
ExistingQuotesOfRawFacts(report) ==
    IF report["raw_facts"].kind # "none" THEN report["raw_facts"].quotes ELSE {}

\* existing_quotes of deduplicate_conflicting_quotes (main.py 1306-1330):
\* the quotes of the three sections that research_report holds.
ExistingQuotes(report) ==
    UNION {report[k].quotes : k \in {s \in QuoteSections : report[s].kind # "none"}}

\* The loop of main.py 1339-1363 over the rest of the list.
RECURSIVE DedupWalk(_, _, _, _)
DedupWalk(data, existing_quotes, conflicting_quotes_used, conflicting_sources_used) ==
    IF data = <<>> THEN <<>>
    ELSE LET conflict == Head(data)
             source_a_quote == conflict.source_a.quote
             source_b_quote == conflict.source_b.quote
             source_a_name == conflict.source_a.name
             source_b_name == conflict.source_b.name
         IN  IF /\ source_a_quote \notin existing_quotes
                /\ source_b_quote \notin existing_quotes
                /\ source_a_quote \notin conflicting_quotes_used
                /\ source_b_quote \notin conflicting_quotes_used
                /\ source_a_name \notin conflicting_sources_used
                /\ source_b_name \notin conflicting_sources_used
             THEN <<conflict>> \o
                  DedupWalk(Tail(data), existing_quotes,
                            conflicting_quotes_used \cup {source_a_quote, source_b_quote},
                            conflicting_sources_used \cup {source_a_name, source_b_name})
             ELSE DedupWalk(Tail(data), existing_quotes,
                            conflicting_quotes_used, conflicting_sources_used)

\* deduplicate_conflicting_quotes (main.py 1296-1367).
deduplicate_conflicting_quotes(conflicting_info_data, report) ==
    IF conflicting_info_data = <<>> THEN conflicting_info_data
    ELSE DedupWalk(conflicting_info_data, ExistingQuotes(report), {}, {})

\* parsed_json of a writer, by section, before any post-processing.
WriterPayloads(w) ==
    IF w = "conflicting_info"
    THEN {[kind |-> IF l = <<>> THEN "empty" ELSE "valid",
           quotes |-> {}, conflicts |-> l] : l \in ConflictLists}
         \cup {[kind |-> "invalid", quotes |-> {}, conflicts |-> <<>>]}
    ELSE IF w \in QuoteSections
    THEN {[kind |-> "valid", quotes |-> q, conflicts |-> <<>>] : q \in SectionQuoteSets}
         \cup {[kind |-> k, quotes |-> {}, conflicts |-> <<>>] : k \in {"empty", "invalid"}}
    ELSE {[kind |-> k, quotes |-> {}, conflicts |-> <<>>] : k \in PayloadKinds}

\* Lines 1450-1457 of writer_node: the conflicting_info list goes through
\* deduplicate_conflicting_quotes together with the research_report of the
\* state the node was started with; a payload that is not a list comes back
\* as it is.
PostProcess(w, payload, report) ==
    IF w = "conflicting_info" /\ payload.kind # "invalid"
    THEN LET kept == deduplicate_conflicting_quotes(payload.conflicts, report)
         IN  [kind |-> IF kept = <<>> THEN "empty" ELSE "valid",
              quotes |-> {}, conflicts |-> kept]
    ELSE payload

Pending == [status |-> "pending", payload |-> NoPayload]
Failed == [status |-> "failed", payload |-> NoPayload]

\* A research_node whose RateLimitError is followed by another graph.invoke
\* every time.
research_node_retried_always ==
    /\ wfPc = "researcher"
    /\ \E outcome \in ResearchOutcomes :
        /\ wfPc' = IF outcome = "ok" THEN "scraper"
                   ELSE IF outcome = "rate" THEN "rate_limited"
                   ELSE "failed"
        /\ messages' = IF outcome = "ok" THEN messages + 1 ELSE messages
    /\ UNCHANGED <<wfAttempt, wfOut, scraped_data, research_report, image_urls,
                   wfImage, wfAggregator, wfFinal>>
    /\ UNCHANGED <<invVars, qVars, slugVars, dedupVars>>

\* research_node (main.py 837-846).  A RateLimitError leaves graph.invoke;
\* in the second invoke it is raised inside the except clause of line 261
\* and ends at `except Exception` (396), like any other exception.
research_node ==
    /\ wfPc = "researcher"
    /\ \E outcome \in ResearchOutcomes :
        /\ wfPc' = IF outcome = "ok" THEN "scraper"
                   ELSE IF outcome = "rate" /\ wfAttempt = 1 THEN "rate_limited"
                   ELSE "failed"
        /\ messages' = IF outcome = "ok" THEN messages + 1 ELSE messages
    /\ UNCHANGED <<wfAttempt, wfOut, scraped_data, research_report, image_urls,
                   wfImage, wfAggregator, wfFinal>>
    /\ UNCHANGED <<invVars, qVars, slugVars, dedupVars>>

\* main.py 261-267: wait 10 s and call graph.invoke(initial_state) again.
RetryInvoke ==
    /\ wfPc = "rate_limited"
    /\ wfPc' = "researcher"
    /\ wfAttempt' = 2
    /\ wfOut' = [w \in Writers |-> Pending]
    /\ messages' = 0
    /\ scraped_data' = 0
    /\ research_report' = [w \in Writers |-> NoPayload]
    /\ image_urls' = "unset"
    /\ wfImage' = "idle"
    /\ wfAggregator' = 0
    /\ UNCHANGED wfFinal
    /\ UNCHANGED <<invVars, qVars, slugVars, dedupVars>>

\* How a call of tavily_tool.invoke ends (main.py 870, 873).
SearchOutcomes == {"results", "raise"}

\* scraper_node (main.py 849-939).  The search is tried with the exact
\* query inside a try (869-871) and, when that raised, once more with the
\* enhanced query inside the except clause (872-874), where an exception
\* leaves the node and graph.invoke.  Everything after the search is
\* guarded: a result that is no list of dicts gives no items (881-900), a
\* page that cannot be scraped leaves the item with the search's own
\* content (924-926, scrape_website 33-54).  Then the seven writers are
\* started.
scraper_node ==
    /\ wfPc = "scraper"
    /\ \E exact \in SearchOutcomes, enhanced \in SearchOutcomes, items \in {0, 2} :
          IF exact = "raise" /\ enhanced = "raise"
          THEN /\ wfPc' = "failed"
               /\ UNCHANGED scraped_data
          ELSE /\ wfPc' = "writers"
               /\ scraped_data' = items
    /\ UNCHANGED <<wfAttempt, wfOut, messages, research_report, image_urls,
                   wfImage, wfAggregator, wfFinal>>
    /\ UNCHANGED <<invVars, qVars, slugVars, dedupVars>>

\* writer_node (main.py 1412-1465) for one section: an exception of the
\* agent or of json.loads ends in the except clause (a message, no
\* section); else the parsed payload is returned as the update
\* {"research_report": {agent_name: parsed_json}}.  research_report is the
\* one of the state the step started with.
writer_node(w) ==
    /\ wfPc = "writers"
    /\ wfOut[w].status = "pending"
    /\ \E out \in {Failed} \cup
                  {[status |-> "ok", payload |-> PostProcess(w, p, research_report)] :
                      p \in WriterPayloads(w)} :
          wfOut' = [wfOut EXCEPT ![w] = out]
    /\ UNCHANGED <<wfPc, wfAttempt, messages, scraped_data, research_report,
                   image_urls, wfImage, wfAggregator, wfFinal>>
    /\ UNCHANGED <<invVars, qVars, slugVars, dedupVars>>

\* The end of the writers' step: the updates of the seven nodes are applied
\* to the channels.  `messages` concatenates; research_report takes what
\* ApplyWrites makes of the writes.  Then aggregator (an edge from every
\* writer) and image_fetcher (the edge from cited_sources) are started.
WritersStepEnd ==
    /\ wfPc = "writers"
    /\ \A w \in Writers : wfOut[w].status # "pending"
    /\ LET ok == {w \in Writers : wfOut[w].status = "ok"}
           writes == [w \in ok |-> wfOut[w].payload]
           applied == ApplyWrites(writes)
       IN  IF applied.kind = "error"
           THEN /\ wfPc' = "failed"
                /\ UNCHANGED <<messages, research_report>>
           ELSE /\ wfPc' = "fetch_aggregate"
                /\ messages' = messages + Cardinality(Writers \ ok)
                /\ research_report' =
                      [w \in Writers |-> IF w \in DOMAIN applied.report
                                         THEN applied.report[w] ELSE NoPayload]
    /\ UNCHANGED <<wfAttempt, wfOut, scraped_data, image_urls, wfImage,
                   wfAggregator, wfFinal>>
    /\ UNCHANGED <<invVars, qVars, slugVars, dedupVars>>

\* An image_fetcher started by scraper, in the writers' step.
image_fetcher_node_with_writers ==
    /\ wfPc = "writers"
    /\ wfImage = "idle"
    /\ wfImage' = "done"
    /\ image_urls' = "set"
    /\ UNCHANGED <<wfPc, wfAttempt, wfOut, messages, scraped_data, research_report,
                   wfAggregator, wfFinal>>
    /\ UNCHANGED <<invVars, qVars, slugVars, dedupVars>>

\* image_fetcher_node (main.py 949-986).
image_fetcher_node ==
    /\ wfPc = "fetch_aggregate"
    /\ wfImage = "idle"
    /\ wfImage' = "done"
    /\ image_urls' = "set"
    /\ UNCHANGED <<wfPc, wfAttempt, wfOut, messages, scraped_data, research_report,
                   wfAggregator, wfFinal>>
    /\ UNCHANGED <<invVars, qVars, slugVars, dedupVars>>

\* aggregator_node (main.py 1468-1471).  It is started by the writers, in
\* the step image_fetcher runs in, and once more by image_fetcher; after
\* that the edge to END closes the run.
aggregator_node ==
    /\ wfPc = "fetch_aggregate"
    /\ \/ wfAggregator = 0
       \/ wfAggregator = 1 /\ wfImage = "done"
    /\ wfAggregator' = wfAggregator + 1
    /\ wfPc' = IF wfAggregator = 1 THEN "end" ELSE wfPc
    /\ UNCHANGED <<wfAttempt, wfOut, messages, scraped_data, research_report,
                   image_urls, wfImage, wfFinal>>
    /\ UNCHANGED <<invVars, qVars, slugVars, dedupVars>>

\* The headline the run is for.
WfHeadline == <<"a", "!", "b">>

\* generate_article_for_topic after graph.invoke (main.py 269-394): the
\* assembly, model_validate and report_cache[topic_slug] = validated_report.
\* The image URLs go into fields of sections that exist (274-283) and
\* change no section's presence.
AssembleAndCache ==
    /\ wfPc = "end"
    /\ LET present == {w \in Writers : research_report[w].kind # "none"}
           final_report_data == [k \in present |-> research_report[k].kind]
           validated_report == Assemble(final_report_data, Slug(WfHeadline), 1)
       IN  /\ wfFinal' = validated_report
           /\ wfPc' = IF validated_report = NoReport THEN "failed" ELSE "done"
    /\ UNCHANGED <<wfAttempt, wfOut, messages, scraped_data, research_report,
                   image_urls, wfImage, wfAggregator>>
    /\ UNCHANGED <<invVars, qVars, slugVars, dedupVars>>

WFNext ==
    \/ research_node
    \/ RetryInvoke
    \/ scraper_node
    \/ \E w \in Writers : writer_node(w)
    \/ WritersStepEnd
    \/ image_fetcher_node
    \/ aggregator_node
    \/ AssembleAndCache

(***************************************************************************)
(* Part 6.  The slug computations applied to pairs of headlines            *)
(***************************************************************************)

\* Longest headline handed to the slug computations.
MaxHeadlineLen == 2

HeadlineTexts == UNION {[1..n -> Chars] : n \in 0..MaxHeadlineLen}

NoSlugs == [main |-> <<>>, feed |-> <<>>]

\* topic_slug (main.py 125-126) and the topic's "slug" (feed.py 849) of
\* both headlines.
ComputeSlugs ==
    /\ slugOut = NoSlugs
    /\ slugOut' = [main |-> <<Slug(headline1), Slug(headline2)>>,
                   feed |-> <<FeedSlug(headline1), FeedSlug(headline2)>>]
    /\ UNCHANGED <<headline1, headline2>>
    /\ UNCHANGED <<invVars, qVars, wfVars, dedupVars>>

SlugNext == ComputeSlugs

(***************************************************************************)
(* Part 7.  deduplicate_conflicting_quotes applied to a list and a report  *)
(***************************************************************************)

\* Longest conflicting_info list handed to the function.
MaxConflicts == 3

\* More entries: ConflictC shares a source name with ConflictA, ConflictD
\* has the same quote on both sides, ConflictE the same source on both
\* sides, ConflictF has no name and no quote, which the function reads as
\* '' (the defaults of .get, main.py 1340-1343); ConflictG shares nothing
\* with the others.
ConflictC == [source_a |-> [name |-> "n1", quote |-> "q4"],
              source_b |-> [name |-> "n5", quote |-> "q5"]]
ConflictD == [source_a |-> [name |-> "n6", quote |-> "q6"],
              source_b |-> [name |-> "n7", quote |-> "q6"]]
ConflictE == [source_a |-> [name |-> "n8", quote |-> "q7"],
              source_b |-> [name |-> "n8", quote |-> "q8"]]
ConflictF == [source_a |-> [name |-> "", quote |-> ""],
              source_b |-> [name |-> "", quote |-> ""]]
ConflictG == [source_a |-> [name |-> "n9", quote |-> "q9"],
              source_b |-> [name |-> "n10", quote |-> "q10"]]

ConflictEntries ==
    {ConflictA, ConflictB, ConflictC, ConflictD, ConflictE, ConflictF, ConflictG}

\* The lists parsed_json may be (main.py 1448).
ConflictInputs == UNION {[1..n -> ConflictEntries] : n \in 0..MaxConflicts}

\* The quote each of the three sections carries when research_report has
\* the section.
SectionQuote ==
    [raw_facts |-> "q1", perspectives |-> "q3", timeline_items |-> "q5"]

\* The research_report values the function may be called with: each of the
\* three sections it looks at is there or not.
DedupReports ==
    {[k \in QuoteSections |->
         IF k \in present
         THEN [kind |-> "valid", quotes |-> {SectionQuote[k]}, conflicts |-> <<>>]
         ELSE NoPayload] : present \in SUBSET QuoteSections}

\* The sides of the entries of a list, as <<position, side>>.
Sides(data) == (1..Len(data)) \X {"source_a", "source_b"}

\* len(all) - len(set(all)) of main.py 1393-1397 for one field: only the
\* values that are not '' are collected (1384-1391).
DuplicateCount(data, field) ==
    LET collected == {p \in Sides(data) : data[p[1]][p[2]][field] # ""}
    IN  Cardinality(collected)
           - Cardinality({data[p[1]][p[2]][field] : p \in collected})

\* validate_conflicting_info_quotes (main.py 1369-1409): False for an empty
\* list (1373-1375), else True exactly when neither the quotes nor the
\* names have a duplicate (1399-1409).
validate_conflicting_info_quotes(conflicting_info_data) ==
    IF conflicting_info_data = <<>> THEN "failed"
    ELSE IF DuplicateCount(conflicting_info_data, "quote") = 0
            /\ DuplicateCount(conflicting_info_data, "name") = 0
    THEN "passed"
    ELSE "failed"

\* Lines 1454-1457 of writer_node: parsed_json =
\* deduplicate_conflicting_quotes(parsed_json, current_research_report),
\* then validate_conflicting_info_quotes(parsed_json), whose result is
\* dropped.
Deduplicate ==
    /\ dedupPc = "call"
    /\ unique_conflicts' =
          deduplicate_conflicting_quotes(parsed_json, current_research_report)
    /\ validation' = validate_conflicting_info_quotes(unique_conflicts')
    /\ dedupPc' = "returned"
    /\ UNCHANGED <<parsed_json, current_research_report>>
    /\ UNCHANGED <<invVars, qVars, wfVars, slugVars>>

DedupNext == Deduplicate

(***************************************************************************)
(* Specifications                                                          *)
(***************************************************************************)

vars == <<invVars, qVars, wfVars, slugVars, dedupVars>>

\* The initial states.  The part a specification is about starts as the
\* program leaves it after construction; the other parts stay in one
\* state: the wrapper before its first call, the queue and the cache of the
\* module globals (main.py 64-75), the initial_state of a run (248-256).

\* A call of a wrapper built with any max_retries and base_delay, before
\* its first attempt.
InvInit ==
    /\ max_retries \in 1..MaxRetriesBound
    /\ base_delay \in BaseDelays
    /\ attempt = 0
    /\ invTrace = <<>>
    /\ invSleeps = <<>>
    /\ invWaits = <<>>
    /\ invResult = "running"
    /\ report_cache = EmptyCache
    /\ article_generation_queue = <<>>
    /\ is_generating_articles = FALSE
    /\ execPending = 0
    /\ wpc = [t \in ExecutorThreads |-> "idle"]
    /\ wtopic = [t \in ExecutorThreads |-> NoTopic]
    /\ wresult = [t \in ExecutorThreads |-> NoCall]
    /\ enq = NoEnqueuer
    /\ lpc = "idle"
    /\ larg = <<>>
    /\ getResult = "none"
    /\ calls = 0
    /\ wfPc = "researcher"
    /\ wfAttempt = 1
    /\ wfOut = [w \in Writers |-> Pending]
    /\ messages = 0
    /\ scraped_data = 0
    /\ research_report = [w \in Writers |-> NoPayload]
    /\ image_urls = "unset"
    /\ wfImage = "idle"
    /\ wfAggregator = 0
    /\ wfFinal = NoReport
    /\ headline1 = <<>>
    /\ headline2 = <<>>
    /\ slugOut = NoSlugs
    /\ parsed_json = <<>>
    /\ current_research_report = [k \in QuoteSections |-> NoPayload]
    /\ unique_conflicts = <<>>
    /\ validation = "not_run"
    /\ dedupPc = "call"

\* The module globals after import (main.py 64-75), no request yet.
QInit ==
    /\ report_cache = EmptyCache
    /\ article_generation_queue = <<>>
    /\ is_generating_articles = FALSE
    /\ execPending = 0
    /\ wpc = [t \in ExecutorThreads |-> "idle"]
    /\ wtopic = [t \in ExecutorThreads |-> NoTopic]
    /\ wresult = [t \in ExecutorThreads |-> NoCall]
    /\ enq = NoEnqueuer
    /\ lpc = "idle"
    /\ larg = <<>>
    /\ getResult = "none"
    /\ calls = 0
    /\ max_retries = 1
    /\ base_delay = 20
    /\ attempt = 0
    /\ invTrace = <<>>
    /\ invSleeps = <<>>
    /\ invWaits = <<>>
    /\ invResult = "running"
    /\ wfPc = "researcher"
    /\ wfAttempt = 1
    /\ wfOut = [w \in Writers |-> Pending]
    /\ messages = 0
    /\ scraped_data = 0
    /\ research_report = [w \in Writers |-> NoPayload]
    /\ image_urls = "unset"
    /\ wfImage = "idle"
    /\ wfAggregator = 0
    /\ wfFinal = NoReport
    /\ headline1 = <<>>
    /\ headline2 = <<>>
    /\ slugOut = NoSlugs
    /\ parsed_json = <<>>
    /\ current_research_report = [k \in QuoteSections |-> NoPayload]
    /\ unique_conflicts = <<>>
    /\ validation = "not_run"
    /\ dedupPc = "call"

\* initial_state (main.py 248-256) at the first graph.invoke.
WFInit ==
    /\ wfPc = "researcher"
    /\ wfAttempt = 1
    /\ wfOut = [w \in Writers |-> Pending]
    /\ messages = 0
    /\ scraped_data = 0
    /\ research_report = [w \in Writers |-> NoPayload]
    /\ image_urls = "unset"
    /\ wfImage = "idle"
    /\ wfAggregator = 0
    /\ wfFinal = NoReport
    /\ max_retries = 1
    /\ base_delay = 20
    /\ attempt = 0
    /\ invTrace = <<>>
    /\ invSleeps = <<>>
    /\ invWaits = <<>>
    /\ invResult = "running"
    /\ report_cache = EmptyCache
    /\ article_generation_queue = <<>>
    /\ is_generating_articles = FALSE
    /\ execPending = 0
    /\ wpc = [t \in ExecutorThreads |-> "idle"]
    /\ wtopic = [t \in ExecutorThreads |-> NoTopic]
    /\ wresult = [t \in ExecutorThreads |-> NoCall]
    /\ enq = NoEnqueuer
    /\ lpc = "idle"
    /\ larg = <<>>
    /\ getResult = "none"
    /\ calls = 0
    /\ headline1 = <<>>
    /\ headline2 = <<>>
    /\ slugOut = NoSlugs
    /\ parsed_json = <<>>
    /\ current_research_report = [k \in QuoteSections |-> NoPayload]
    /\ unique_conflicts = <<>>
    /\ validation = "not_run"
    /\ dedupPc = "call"

\* Any two headlines, before their slugs are computed.
SlugInit ==
    /\ headline1 \in HeadlineTexts
    /\ headline2 \in HeadlineTexts
    /\ slugOut = NoSlugs
    /\ max_retries = 1
    /\ base_delay = 20
    /\ attempt = 0
    /\ invTrace = <<>>
    /\ invSleeps = <<>>
    /\ invWaits = <<>>
    /\ invResult = "running"
    /\ report_cache = EmptyCache
    /\ article_generation_queue = <<>>
    /\ is_generating_articles = FALSE
    /\ execPending = 0
    /\ wpc = [t \in ExecutorThreads |-> "idle"]
    /\ wtopic = [t \in ExecutorThreads |-> NoTopic]
    /\ wresult = [t \in ExecutorThreads |-> NoCall]
    /\ enq = NoEnqueuer
    /\ lpc = "idle"
    /\ larg = <<>>
    /\ getResult = "none"
    /\ calls = 0
    /\ wfPc = "researcher"
    /\ wfAttempt = 1
    /\ wfOut = [w \in Writers |-> Pending]
    /\ messages = 0
    /\ scraped_data = 0
    /\ research_report = [w \in Writers |-> NoPayload]
    /\ image_urls = "unset"
    /\ wfImage = "idle"
    /\ wfAggregator = 0
    /\ wfFinal = NoReport
    /\ parsed_json = <<>>
    /\ current_research_report = [k \in QuoteSections |-> NoPayload]
    /\ unique_conflicts = <<>>
    /\ validation = "not_run"
    /\ dedupPc = "call"

\* Any list and any report, before the function is called.
DedupInit ==
    /\ parsed_json \in ConflictInputs
    /\ current_research_report \in DedupReports
    /\ unique_conflicts = <<>>
    /\ validation = "not_run"
    /\ dedupPc = "call"
    /\ headline1 = <<>>
    /\ headline2 = <<>>
    /\ slugOut = NoSlugs
    /\ max_retries = 1
    /\ base_delay = 20
    /\ attempt = 0
    /\ invTrace = <<>>
    /\ invSleeps = <<>>
    /\ invWaits = <<>>
    /\ invResult = "running"
    /\ report_cache = EmptyCache
    /\ article_generation_queue = <<>>
    /\ is_generating_articles = FALSE
    /\ execPending = 0
    /\ wpc = [t \in ExecutorThreads |-> "idle"]
    /\ wtopic = [t \in ExecutorThreads |-> NoTopic]
    /\ wresult = [t \in ExecutorThreads |-> NoCall]
    /\ enq = NoEnqueuer
    /\ lpc = "idle"
    /\ larg = <<>>
    /\ getResult = "none"
    /\ calls = 0
    /\ wfPc = "researcher"
    /\ wfAttempt = 1
    /\ wfOut = [w \in Writers |-> Pending]
    /\ messages = 0
    /\ scraped_data = 0
    /\ research_report = [w \in Writers |-> NoPayload]
    /\ image_urls = "unset"
    /\ wfImage = "idle"
    /\ wfAggregator = 0
    /\ wfFinal = NoReport

SpecInv == InvInit /\ [][InvNext]_vars

SpecQ == QInit /\ [][QNext]_vars

\* One step of an executor thread inside process_article_generation_queue.
WorkerStep(t) ==
    \/ W_Pop(t)
    \/ W_Check(t)
    \/ W_Gen(t)
    \/ W_InvokeEnd(t)
    \/ W_InvokeRetryEnd(t)
    \/ W_Sleep(t)
    \/ W_Finally(t)

\* SpecQ with an executor thread that keeps running: a thread inside
\* process_article_generation_queue is never suspended for ever, and every
\* graph.invoke and sleep comes to an end.
SpecQFair == SpecQ /\ \A t \in ExecutorThreads : WF_vars(WorkerStep(t))

SpecWF == WFInit /\ [][WFNext]_vars

SpecSlug == SlugInit /\ [][SlugNext]_vars

SpecDedup == DedupInit /\ [][DedupNext]_vars

(***************************************************************************)
(* Claims about the queue, the worker and the cache (SpecQ)                *)
(***************************************************************************)

\* A pool thread runs lines 121-143 for a call with force_research False.
UnforcedEnqueue ==
    /\ enq'["read_flag"] = enq["read_flag"] + 1
    /\ \E topics \in TopicBatches :
          article_generation_queue' =
              article_generation_queue
                  \o NewTopics(topics, FALSE, article_generation_queue, report_cache)

\* C1: an unforced enqueue never gives the queue a second job of a slug, and
\* appends no job of a slug that is cached or already queued, however many
\* times the call names the slug.
C1_OneJobPerSlug ==
    [][UnforcedEnqueue =>
          \A s \in AllSlugs :
              /\ CountSlug(article_generation_queue', s) <= 1
                    \/ CountSlug(article_generation_queue', s)
                          = CountSlug(article_generation_queue, s)
              /\ (Cached(s) \/ CountSlug(article_generation_queue, s) >= 1)
                    => CountSlug(article_generation_queue', s)
                          = CountSlug(article_generation_queue, s)]_vars

\* Where graph.invoke is running.
WorkerInvoking(t) == wpc[t] \in {"invoke", "invoke_retry"}
EndpointInvoking == lpc \in {"ep_invoke", "ep_invoke_retry"}

\* C2: no two workflow runs that write the same cache key are in flight at
\* once, whether started by the worker or by the generate-article endpoint.
\* (A run of the research endpoint has no key before it ends and is left
\* out.)
C2_OneRunPerKey ==
    /\ \A t1, t2 \in ExecutorThreads :
          (t1 # t2 /\ WorkerInvoking(t1) /\ WorkerInvoking(t2))
              => wtopic[t1].slug # wtopic[t2].slug
    /\ \A t \in ExecutorThreads :
          (WorkerInvoking(t) /\ EndpointInvoking)
              => wtopic[t].slug # EndpointSlug

\* Nothing is in progress: no handler is mid-call, no executor thread is
\* busy and the executor has no task waiting.
Quiescent ==
    /\ enq = NoEnqueuer
    /\ \A t \in ExecutorThreads : wpc[t] = "idle"
    /\ execPending = 0
    /\ lpc = "idle"

\* C3: a queued job never waits for a later enqueue: whenever nothing is in
\* progress any more, the queue has been drained.
C3_NoJobLeftBehind == Quiescent => article_generation_queue = <<>>

\* Inside the while loop of process_article_generation_queue.
InLoop(t) == wpc[t] \in {"pop", "check", "gen", "invoke", "invoke_retry", "sleep"}

\* C4: at most one execution of process_article_generation_queue is inside
\* the job-processing loop.
C4_OneWorkerInLoop ==
    Cardinality({t \in ExecutorThreads : InLoop(t)}) <= 1

\* The worker is in its loop with the flag cleared by pause_generation or
\* reset_rate_limits, and a further task has been submitted meanwhile.
C4_Witness ==
    /\ \E t \in ExecutorThreads : InLoop(t)
    /\ ~is_generating_articles
    /\ execPending > 0

\* C5: get_article answers with the report when the slug is cached, and
\* else with Pending exactly when a job of that slug is in the queue and
\* with NotFound otherwise.
C5_GetReport ==
    [][/\ (lpc = "idle" /\ lpc' = "ga_return")
            => (getResult' = "Report" /\ Cached(larg'))
       /\ (lpc = "idle" /\ lpc' = "ga_lock") => ~Cached(larg')
       /\ (lpc = "ga_lock" /\ lpc' = "ga_return")
            => getResult' = IF IsQueuedBySlug(larg, article_generation_queue)
                            THEN "Pending" ELSE "NotFound"]_vars

\* A call of queue_article_generation gets through lines 121-143.
EnqueueStep == enq'["read_flag"] = enq["read_flag"] + 1

\* That call was given the one topic `headline` with this force_research.
EnqueueOf(headline, force) ==
    /\ EnqueueStep
    /\ article_generation_queue' =
           article_generation_queue
               \o NewTopics(<<headline>>, force, article_generation_queue, report_cache)

\* The worker's call of generate_article_with_retry ends.
CallEndStep(t) == wresult[t] = NoCall /\ wresult'[t] # NoCall

\* C12 (as stated): each of two forced requests of one query gets its own
\* generation, so every forced call appends its job.
C12_EveryForcedCallAppends ==
    [][\A h \in Headlines :
          EnqueueOf(h, TRUE)
              => article_generation_queue'
                     = Append(article_generation_queue, QueuedTopic[h, TRUE])]_vars

\* C12 (amended): a forced call appends its job unless a job of the slug is
\* waiting in the queue; the worker never skips a forced job as cached; and
\* a generation that returns the slug replaces the entry of that slug, and
\* no other, by the report assembled from that run alone, under a new id.
C12_ForcedRegenerationReplaces ==
    [][/\ \A h \in Headlines :
            EnqueueOf(h, TRUE)
                => article_generation_queue'
                       = IF IsQueuedBySlug(Slug(h), article_generation_queue)
                         THEN article_generation_queue
                         ELSE Append(article_generation_queue, QueuedTopic[h, TRUE])
       /\ \A t \in ExecutorThreads :
            (wtopic[t].force_research /\ wpc[t] \in {"check", "gen"})
                => wpc'[t] \in {"check", "gen", "invoke"}
       /\ \A t \in ExecutorThreads :
            (CallEndStep(t) /\ WorkerInvoking(t) /\ wresult'[t] = "slug")
                => LET s == wtopic[t].slug
                   IN  /\ report_cache'[s].id # report_cache[s].id
                       /\ \E r \in RunResults :
                            /\ r.kind = "state"
                            /\ report_cache'[s]
                                 = Assemble(r.report, s, report_cache'[s].id)
                       /\ \A k \in AllSlugs \ {s} :
                            report_cache'[k] = report_cache[k]]_vars

\* A forced job has just replaced an entry that an earlier generation wrote.
C12_Witness ==
    \E t \in ExecutorThreads :
        /\ wpc[t] = "sleep"
        /\ wresult[t] = "slug"
        /\ wtopic[t].force_research
        /\ report_cache[wtopic[t].slug].id = 2

\* C13: when the run of a popped job fails because the rate limit was
\* exhausted, the worker puts that job at the back of the queue.
C13_RateLimitedJobRequeued ==
    [][\A t \in ExecutorThreads :
          (CallEndStep(t) /\ wresult'[t] = "none_rate_limit")
              => article_generation_queue'
                     = Append(article_generation_queue, wtopic[t])]_vars

\* The worker has a popped job or is about to pop one.
SlugPopped(s) ==
    \E t \in ExecutorThreads : wpc[t] = "check" /\ wtopic[t].slug = s

\* C14: the queue changes only by appends at its back and by the worker
\* taking its first job; and while the worker is in its loop, after a
\* rate-limited call or not, every queued job is eventually taken.
C14_FifoNoStarvation ==
    /\ [][article_generation_queue' # article_generation_queue
            => \/ /\ Len(article_generation_queue') > Len(article_generation_queue)
                  /\ SubSeq(article_generation_queue', 1, Len(article_generation_queue))
                        = article_generation_queue
               \/ /\ article_generation_queue # <<>>
                  /\ article_generation_queue' = Tail(article_generation_queue)
                  /\ \E t \in ExecutorThreads :
                        /\ wpc[t] = "pop"
                        /\ wtopic'[t] = Head(article_generation_queue)]_vars
    /\ \A s \in {Slug(h) : h \in Headlines} :
          ((\E t \in ExecutorThreads : InLoop(t))
             /\ IsQueuedBySlug(s, article_generation_queue))
              ~> SlugPopped(s)

\* A call of the worker ended rate-limited while another job waits.
C14_Witness ==
    \E t \in ExecutorThreads :
        /\ wresult[t] = "none_rate_limit"
        /\ article_generation_queue # <<>>

\* What ResearchReport.model_validate accepted: the article and every other
\* required section, generated or fallback.
SchemaValid(rep) ==
    /\ rep # NoReport
    /\ "article" \in rep.generated
    /\ rep.generated \cup rep.placeholder = RequiredSections

\* C15: the step that ends the worker's call changes the cache only when
\* the call returns the slug, and then to a schema-valid report under the
\* job's slug; a call that fails for another reason than rate limiting
\* leaves cache and queue as they are.
C15_CacheWrittenOnlyWithValidReport ==
    [][\A t \in ExecutorThreads :
          (CallEndStep(t) /\ WorkerInvoking(t))
              => /\ report_cache' # report_cache => wresult'[t] = "slug"
                 /\ wresult'[t] = "slug"
                      => /\ SchemaValid(report_cache'[wtopic[t].slug])
                         /\ \A k \in AllSlugs \ {wtopic[t].slug} :
                              report_cache'[k] = report_cache[k]
                 /\ wresult'[t] = "none_error"
                      => /\ report_cache' = report_cache
                         /\ article_generation_queue' = article_generation_queue]_vars

\* A run of the worker failed without rate limiting while the cache holds a
\* report.
C15_Witness ==
    /\ \E t \in ExecutorThreads : wpc[t] = "sleep" /\ wresult[t] = "none_error"
    /\ \E s \in AllSlugs : Cached(s)

\* C16: the cache changes only in steps of the background worker.
C16_OnlyWorkerWritesCache ==
    [][report_cache' # report_cache
          => \E t \in ExecutorThreads : CallEndStep(t) /\ WorkerInvoking(t)]_vars

C18_SectionsCarryArticleId ==
    \A s \in AllSlugs :
        Cached(s)
            => \A k \in PlaceholderSections :
                  report_cache[s].article_id[k] = report_cache[s].id

\* A cached report with fallback sections.
C18_Witness ==
    \E s \in AllSlugs : Cached(s) /\ report_cache[s].placeholder # {}

\* C20 (as stated): an unforced call for a cached or queued slug appends
\* nothing, every other call appends one job.
C20_UnforcedKnownSlugNoOp ==
    [][\A h \in Headlines, force \in BOOLEAN :
          EnqueueOf(h, force)
              => article_generation_queue'
                     = IF ~force /\ (Cached(Slug(h))
                                       \/ IsQueuedBySlug(Slug(h), article_generation_queue))
                       THEN article_generation_queue
                       ELSE Append(article_generation_queue, QueuedTopic[h, force])]_vars

\* C20 (amended): a call for a slug that is queued, forced or not, or an
\* unforced call for a cached slug, appends nothing; every other call
\* appends its one job at the back.  Neither touches the cache, the worker
\* or the executor up to line 143.
C20_EnqueueNoOpOrAppend ==
    [][\A h \in Headlines, force \in BOOLEAN :
          EnqueueOf(h, force)
              => /\ article_generation_queue'
                      = IF IsQueuedBySlug(Slug(h), article_generation_queue)
                           \/ (~force /\ Cached(Slug(h)))
                        THEN article_generation_queue
                        ELSE Append(article_generation_queue, QueuedTopic[h, force])
                 /\ UNCHANGED <<report_cache, is_generating_articles, execPending,
                                wpc, wtopic, wresult>>]_vars

\* A call has appended nothing: it is past line 143, the queue is empty and
\* no worker has been there to empty it.
C20_Witness ==
    /\ enq["read_flag"] > 0
    /\ article_generation_queue = <<>>
    /\ execPending = 0
    /\ \A t \in ExecutorThreads : wpc[t] = "idle"
    /\ \E s \in AllSlugs : Cached(s)

\* A step of the worker, or of the generate-article-for-topic endpoint,
\* that stores a report; q is the headline the generation is for.
WorkerStores(t) == WorkerInvoking(t) /\ CallEndStep(t) /\ report_cache' # report_cache
EndpointStores == EndpointInvoking /\ report_cache' # report_cache

\* The keys whose entry the step changes.
WrittenKeys == {s \in AllSlugs : report_cache'[s] # report_cache[s]}

\* C27: a report stored by a generation for the query q is stored under the
\* slug derived from q, and that is the slug its article carries; on the
\* worker path and on the path of the generate-article-for-topic endpoint.
\* (research() stores under the slug of the title its article writer gave,
\* main.py 1559-1585.)
C27_KeyIsSlugOfQuery ==
    [][/\ \A t \in ExecutorThreads :
             WorkerStores(t) =>
                \A s \in WrittenKeys :
                    s = Slug(wtopic[t].headline) /\ report_cache'[s].slug = s
       /\ EndpointStores =>
             \A s \in WrittenKeys :
                 s = Slug(larg) /\ report_cache'[s].slug = s]_vars

\* The worker's part of C27.
C27_WorkerKeyIsSlugOfQuery ==
    [][\A t \in ExecutorThreads :
          WorkerStores(t) =>
             \A s \in WrittenKeys :
                 s = Slug(wtopic[t].headline) /\ report_cache'[s].slug = s]_vars

\* The topic thread t popped is cached and not forced.
CachedUnforced(t) == Cached(wtopic[t].slug) /\ ~wtopic[t].force_research

LoopPositions == {"pop", "check", "gen", "invoke", "invoke_retry", "sleep"}

\* C35: a worker leaves its loop only at the test of line 165, on an empty
\* queue; leaving the function it sets is_generating_articles to False; and
\* whenever no worker is inside the function the flag is False, so the
\* test of line 146 lets the next enqueue submit a worker.
C35_LoopEndsOnEmptyQueueAndClearsFlag ==
    [][\A t \in ExecutorThreads :
          /\ (wpc[t] \in LoopPositions /\ wpc'[t] \notin LoopPositions) =>
                /\ wpc[t] = "pop"
                /\ article_generation_queue = <<>>
                /\ wpc'[t] = "finally"
          /\ (wpc[t] = "finally" /\ wpc'[t] # "finally") =>
                /\ wpc'[t] = "idle"
                /\ is_generating_articles' = FALSE
          /\ (\A u \in ExecutorThreads : wpc'[u] = "idle") =>
                (is_generating_articles' = FALSE)]_vars

\* A worker has processed a job, found the queue empty and is about to
\* leave with the flag still set.
C35_Witness ==
    \E t \in ExecutorThreads :
        /\ wpc[t] = "finally"
        /\ is_generating_articles
        /\ article_generation_queue = <<>>
        /\ \E s \in AllSlugs : Cached(s)

\* C36: every report in the cache holds each of the six required sections,
\* generated by the run or put in as a fallback, none of them empty.
C36_CachedReportsComplete ==
    \A s \in AllSlugs :
        Cached(s) =>
            /\ "article" \in report_cache[s].generated
            /\ \A k \in RequiredSections :
                  k \in report_cache[s].generated \/ k \in report_cache[s].placeholder

\* The worker stored one report and the generate-article endpoint another.
C36_Witness ==
    /\ \E s \in AllSlugs \ {EndpointSlug} :
          Cached(s) /\ report_cache[s].placeholder # {}
    /\ Cached(EndpointSlug)

\* The worker is in its loop with the flag cleared after two calls: the
\* calls were the queue_article_generation that had the worker submitted
\* and a pause_generation or reset_rate_limits after the worker set the
\* flag; resume_generation has not been called.
PausedNotResumed(t) ==
    /\ calls = 2
    /\ InLoop(t)
    /\ ~is_generating_articles

\* C37: once pause_generation or reset_rate_limits has returned, the worker
\* pops no job as long as resume_generation has not been called.
C37_NoPopWhilePaused ==
    [][\A t \in ExecutorThreads :
          PausedNotResumed(t) =>
              ~(wpc[t] = "pop" /\ wpc'[t] = "check"
                /\ Len(article_generation_queue') < Len(article_generation_queue))]_vars

\* A job of this slug has been appended and is neither cached nor dropped
\* yet: it is in the queue, or a worker has popped it and is running it.
JobAlive(slug) ==
    \/ IsQueuedBySlug(slug, article_generation_queue)
    \/ \E t \in ExecutorThreads :
          /\ wpc[t] \in {"check", "gen", "invoke", "invoke_retry"}
          /\ wtopic[t].slug = slug

\* C38: get_article does not decide on NotFound for a slug while a job of
\* that slug is queued or being run.
C38_NoNotFoundWhileJobAlive ==
    [][(lpc = "ga_lock" /\ lpc' = "ga_return" /\ getResult' = "NotFound")
          => ~JobAlive(larg)]_vars

\* C38, for the interval in which the worker has popped the job and is
\* running it: get_article does not decide on NotFound for the job's slug.
C38_NoNotFoundWhileJobRuns ==
    [][(lpc = "ga_lock" /\ lpc' = "ga_return" /\ getResult' = "NotFound")
          => ~(\E t \in ExecutorThreads :
                 /\ wpc[t] \in {"check", "gen", "invoke", "invoke_retry"}
                 /\ wtopic[t].slug = larg)]_vars

\* The step is the locked section of queue_article_generation (lines
\* 121-143), which ends with the caller in front of line 146.
EnqueueSection == enq'["read_flag"] = enq["read_flag"] + 1

\* The step is the locked section of the worker t (lines 164-167) taking a
\* job.
PopSection(t) == wpc[t] = "pop" /\ wpc'[t] = "check"

\* The step is the end of the worker t's call, where lines 208-212 put the
\* job back.
RequeueSection(t) == wpc[t] \in {"gen", "invoke", "invoke_retry"} /\ wpc'[t] = "sleep"

\* C39: the queue changes only in the locked sections, and no job is lost
\* or duplicated by them: an enqueue keeps every queued job in place and
\* adds its own behind them, a pop takes one job out of the queue and
\* hands that job to the one worker that popped, a re-append adds the job
\* the worker holds, and a worker gets hold of a job in no other way.
C39_QueueConservesJobs ==
    [][/\ article_generation_queue' # article_generation_queue
            => \/ /\ EnqueueSection
                  /\ \A t \in ExecutorThreads : wtopic'[t] = wtopic[t]
                  /\ Len(article_generation_queue') > Len(article_generation_queue)
                  /\ \A i \in 1..Len(article_generation_queue) :
                        article_generation_queue'[i] = article_generation_queue[i]
               \/ \E t \in ExecutorThreads :
                     /\ PopSection(t)
                     /\ ~EnqueueSection
               \/ \E t \in ExecutorThreads :
                     /\ RequeueSection(t)
                     /\ ~EnqueueSection
                     /\ article_generation_queue' =
                            Append(article_generation_queue, wtopic[t])
       /\ \A t \in ExecutorThreads :
             PopSection(t)
                => /\ article_generation_queue # <<>>
                   /\ article_generation_queue =
                          <<wtopic'[t]>> \o article_generation_queue'
                   /\ \A u \in ExecutorThreads \ {t} : wtopic'[u] = wtopic[u]
       /\ \A t \in ExecutorThreads :
             (wtopic'[t] # wtopic[t] /\ wtopic'[t] # NoTopic) => PopSection(t)]_vars

\* An enqueue has appended behind the jobs that waited while the worker
\* was running a job it had popped, and its caller has not yet read the flag.
C39_Witness ==
    /\ \E t \in ExecutorThreads :
          wpc[t] \in {"check", "gen", "invoke", "invoke_retry"} /\ wtopic[t] # NoTopic
    /\ enq["read_flag"] > 0
    /\ Len(article_generation_queue) >= 2

(***************************************************************************)
(* Claims about one workflow run (SpecWF)                                  *)
(***************************************************************************)

\* Every writer of the run has returned.
FanOutComplete == \A w \in Writers : wfOut[w].status # "pending"

\* C6: once the sections of a run are final, no quote of its
\* conflicting_info section is a quote of its raw_facts, perspectives or
\* timeline_items section.
C6_ConflictsDisjointFromSections ==
    (FanOutComplete /\ wfOut["conflicting_info"].status = "ok") =>
        \A k \in QuoteSections :
            ConflictQuotes(wfOut["conflicting_info"].payload.conflicts)
                \cap wfOut[k].payload.quotes = {}

FailedWriters == {w \in Writers : wfOut[w].status = "failed"}

\* The researcher succeeded, exactly two of the seven writers failed and
\* the other five returned a payload that fits its schema; the run and the
\* assembly are over.
TwoWritersFailed ==
    /\ wfPc \in {"done", "failed"}
    /\ FanOutComplete
    /\ Cardinality(FailedWriters) = 2
    /\ \A w \in Writers \ FailedWriters :
          wfOut[w].payload.kind = "valid" \/ w = "conflicting_info"

\* C7: whichever two writers fail, the run ends with a validated report in
\* the cache, with a placeholder in the place of each failed required
\* section.
C7_TwoFailuresStillReport ==
    TwoWritersFailed =>
        /\ wfPc = "done"
        /\ wfFinal # NoReport
        /\ (FailedWriters \cap RequiredSections) \subseteq wfFinal.placeholder

\* C21: when the writers' step ends with a writer that failed (an exception
\* of its agent, its retries used up, or output that json.loads rejects),
\* the run goes on to the aggregator, with the sections of exactly the
\* writers that succeeded; a run is lost only in research_node.
C21_WriterFailureNeverAborts ==
    [][(wfPc = "writers" /\ FanOutComplete /\ FailedWriters # {}) =>
          /\ wfPc' = "fetch_aggregate"
          /\ \A w \in Writers :
                (research_report'[w].kind = "none") <=> (w \in FailedWriters)]_vars

\* C24: when the writers' step ends, research_report holds the payload of
\* every writer that succeeded, under the writer's own key: no write
\* replaces or discards the section of another writer.  (The step ends the
\* same way for every order in which the writers returned: WritersStepEnd
\* looks at what they returned, not at when.)
C24_FanOutKeepsEverySection ==
    [][(wfPc = "writers" /\ FanOutComplete) =>
          \A w \in Writers :
              (wfOut[w].status = "ok") => (research_report'[w] = wfOut[w].payload)]_vars

\* C25: aggregator_node runs only when every writer and image_fetcher have
\* returned.
C25_AggregatorAfterAllBranches ==
    [][(wfAggregator' = wfAggregator + 1) =>
          (FanOutComplete /\ wfImage = "done")]_vars

\* The writers at least have all returned whenever aggregator_node runs.
C25_AggregatorAfterWriters ==
    [][(wfAggregator' = wfAggregator + 1) => FanOutComplete]_vars

\* C26 as stated: graph.invoke is called once for a job; a run that ends
\* with a RateLimitError is not followed by another.
C26_GraphInvokedOnce == wfAttempt = 1

\* C26: graph.invoke is called at most twice for a job; the second call is
\* made only after the first one raised RateLimitError (main.py 259-267),
\* and a RateLimitError of the second is followed by no third.
C26_OneReinvokeAfterRateLimit ==
    [][/\ (wfAttempt' # wfAttempt) =>
             (wfPc = "rate_limited" /\ wfAttempt = 1 /\ wfAttempt' = 2)
       /\ (wfPc' = "rate_limited") => (wfAttempt = 1)
       /\ (wfPc = "rate_limited") => (wfAttempt' = 2 /\ wfPc' = "researcher")]_vars

\* The second graph.invoke of a job came to its end.
C26_Witness == wfAttempt = 2 /\ wfPc = "end"

\* The writers whose output did not decode to their section: json.loads
\* raised (with or without markdown fences around the text), or the parsed
\* value does not fit the section's model (a bare object where a list is
\* expected stays an object: lines 1443-1448 strip fences and nothing
\* else).
Undecoded ==
    {w \in Writers : wfOut[w].status = "failed" \/ wfOut[w].payload.kind = "invalid"}

\* C30: a writer output that cannot be decoded to its section makes only
\* that section missing: the assembly that follows the run stores a report
\* in which each such required section is a placeholder.
C30_UndecodedSectionOnlyMissing ==
    [][(wfPc = "end" /\ Undecoded # {}) =>
          /\ wfPc' = "done"
          /\ wfFinal' # NoReport
          /\ (Undecoded \cap RequiredSections) \subseteq wfFinal'.placeholder]_vars

\* The same for the sections that have a fallback (main.py 313-377), when
\* the article writer's output decoded and fits.
C30_UndecodedFallbackSectionOnlyMissing ==
    [][(wfPc = "end" /\ Undecoded # {} /\ research_report["article"].kind = "valid") =>
          /\ wfPc' = "done"
          /\ wfFinal' # NoReport
          /\ (Undecoded \cap RequiredSections) \subseteq wfFinal'.placeholder]_vars

\* C31: whatever the search and the page scrapes do, scraper_node comes to
\* its end and the writers are started.
C31_FetchFailureNeverAborts ==
    [][(wfPc = "scraper") => (wfPc' = "writers")]_vars

\* C32: image_fetcher_node starts only when the cited_sources writer has
\* returned, and image_urls is written by no other step of the run.
C32_ImagesAfterSourcesSingleWriter ==
    [][/\ (wfImage = "idle" /\ wfImage' # "idle") =>
             (wfOut["cited_sources"].status # "pending")
       /\ (image_urls' # image_urls) =>
             (wfPc = "fetch_aggregate" /\ wfImage = "idle" /\ wfImage' = "done"
              /\ UNCHANGED <<wfOut, research_report, wfAggregator>>)]_vars

\* image_fetcher_node has run after a cited_sources writer that succeeded.
C32_Witness ==
    /\ wfImage = "done"
    /\ image_urls = "set"
    /\ wfOut["cited_sources"].status = "ok"

\* The sections a stored report holds.
SectionsOf(rep) == rep.generated \cup rep.placeholder

\* C34: the report the run stored holds the conflicting_info list next to
\* executive_summary, timeline_items, cited_sources, raw_facts and
\* perspectives.
C34_StoredReportHoldsConflicts ==
    (wfFinal # NoReport) =>
        (PlaceholderSections \cup {"conflicting_info"}) \subseteq SectionsOf(wfFinal)

\* The five other sections are there.
C34_StoredReportHoldsFiveSections ==
    (wfFinal # NoReport) => (PlaceholderSections \subseteq SectionsOf(wfFinal))

(***************************************************************************)
(* Claims about the slug computations (SpecSlug)                           *)
(***************************************************************************)

\* Surrounding whitespace trimmed and case folded.
Whitespace == {" "}
Normalized(text) == Lower(Strip(text, Whitespace))

SlugsComputed == slugOut # NoSlugs

\* C11: two headlines that are equal after trimming surrounding whitespace
\* and case-normalization get the same slug, the key of the report cache.
C11_SlugDeterminism ==
    (SlugsComputed /\ Normalized(headline1) = Normalized(headline2))
        => slugOut.main[1] = slugOut.main[2]

\* The slug of feed.py is the same for two such headlines.
FeedSlugIgnoresTrimAndCase ==
    (SlugsComputed /\ Normalized(headline1) = Normalized(headline2))
        => slugOut.feed[1] = slugOut.feed[2]

\* Two headlines that differ in case only get the same slug.
SlugIgnoresCase ==
    (SlugsComputed /\ Lower(headline1) = Lower(headline2))
        => slugOut.main[1] = slugOut.main[2]

(***************************************************************************)
(* Claims about deduplicate_conflicting_quotes (SpecDedup)                 *)
(***************************************************************************)

\* The two quotes and the two source names of an entry.
EntryQuotes(entry) == {entry.source_a.quote, entry.source_b.quote}
EntryNames(entry) == {entry.source_a.name, entry.source_b.name}

\* U: the quotes of raw_facts, perspectives and timeline_items of the report
\* the function was given.
OtherSectionQuotes == UNION {current_research_report[k].quotes : k \in QuoteSections}

\* K is the set of positions of the entries to keep: an entry is in it
\* exactly when its quotes are neither in U nor quotes of an earlier entry
\* of K and its names are not names of an earlier entry of K.
IsKeptSet(K) ==
    \A i \in 1..Len(parsed_json) :
        LET earlier == {j \in K : j < i}
        IN  (i \in K) <=>
               /\ EntryQuotes(parsed_json[i]) \cap
                     (OtherSectionQuotes \cup
                      UNION {EntryQuotes(parsed_json[j]) : j \in earlier}) = {}
               /\ EntryNames(parsed_json[i]) \cap
                     UNION {EntryNames(parsed_json[j]) : j \in earlier} = {}

\* list is the entries of parsed_json at the positions of K, whole and in
\* their order.
IsSubsequenceAt(list, K) ==
    /\ Len(list) = Cardinality(K)
    /\ \A i \in K : list[Cardinality({j \in K : j <= i})] = parsed_json[i]

\* C22: the returned list is the order-preserving subsequence of the input
\* made of the entries whose quotes are neither in U nor among the quotes
\* of earlier kept entries and whose source names are not among the names
\* of earlier kept entries; each entry is kept or dropped whole.
C22_KeepsExactlyTheCleanEntries ==
    (dedupPc = "returned") =>
        \E K \in SUBSET (1..Len(parsed_json)) :
            IsKeptSet(K) /\ IsSubsequenceAt(unique_conflicts, K)

\* The function returned a list that lost an entry because of a quote of
\* another section and kept an entry after it.
C22_Witness ==
    /\ dedupPc = "returned"
    /\ Len(parsed_json) = 3
    /\ EntryQuotes(parsed_json[1]) \cap OtherSectionQuotes # {}
    /\ unique_conflicts = <<parsed_json[2], parsed_json[3]>>

\* C23: in the returned list all quotes, both sides of every entry taken
\* together, are pairwise distinct, all source names are pairwise distinct,
\* and no quote is in U.
C23_ReturnedListHasNoRepeats ==
    (dedupPc = "returned") =>
        /\ \A i, j \in 1..Len(unique_conflicts) :
              /\ unique_conflicts[i].source_a.quote # unique_conflicts[j].source_b.quote
              /\ unique_conflicts[i].source_a.name # unique_conflicts[j].source_b.name
              /\ (i # j) =>
                    /\ unique_conflicts[i].source_a.quote # unique_conflicts[j].source_a.quote
                    /\ unique_conflicts[i].source_b.quote # unique_conflicts[j].source_b.quote
                    /\ unique_conflicts[i].source_a.name # unique_conflicts[j].source_a.name
                    /\ unique_conflicts[i].source_b.name # unique_conflicts[j].source_b.name
        /\ ConflictQuotes(unique_conflicts) \cap OtherSectionQuotes = {}

\* The part of C23 about different entries and about U.
C23_EntriesDisjointAndOffU ==
    (dedupPc = "returned") =>
        /\ \A i, j \in 1..Len(unique_conflicts) :
              (i # j) =>
                 /\ EntryQuotes(unique_conflicts[i]) \cap EntryQuotes(unique_conflicts[j]) = {}
                 /\ EntryNames(unique_conflicts[i]) \cap EntryNames(unique_conflicts[j]) = {}
        /\ ConflictQuotes(unique_conflicts) \cap OtherSectionQuotes = {}

\* Some quote, or some source name, is on two sides of the list (a field
\* that is missing or '' is no quote and no name).
HasRepeat(list) ==
    \E p, q \in Sides(list) :
        /\ p # q
        /\ \/ /\ list[p[1]][p[2]].quote # ""
              /\ list[p[1]][p[2]].quote = list[q[1]][q[2]].quote
           \/ /\ list[p[1]][p[2]].name # ""
              /\ list[p[1]][p[2]].name = list[q[1]][q[2]].name

\* C33: validate_conflicting_info_quotes reports a failure exactly when
\* some quote or some source name occurs more than once in the list it is
\* given.
C33_FailsIffRepeat ==
    (dedupPc = "returned") => ((validation = "failed") <=> HasRepeat(unique_conflicts))

\* The same for the lists that are not empty.
C33_FailsIffRepeatNonEmpty ==
    (dedupPc = "returned" /\ unique_conflicts # <<>>) =>
        ((validation = "failed") <=> HasRepeat(unique_conflicts))

====
